---- MODULE Spec2Model ----
(***************************************************************************)
(* Job-orchestration core of HLG2Phone: the batch schedulers of            *)
(* transcode_core.py / sonyToPhoto.py (process_files_parallel,             *)
(* process_files_sequential) and the task-queue controller of              *)
(* SonyToPhotoGUI with its TranscodeWorker threads.                        *)
(***************************************************************************)
EXTENDS Bags, FiniteSets, Integers, Naturals, Sequences, TLC

(***************************************************************************)
(* Bounds of the model.                                                    *)
(***************************************************************************)
MaxFiles == 3
MaxThreads == 2
MaxTasks == 2        \* tasks ever added to the queue
MaxDetached == 1     \* replaced TranscodeWorker objects still acting
MaxSignals == 1      \* finished signals emitted and not yet delivered
MaxExit == 2         \* exit codes of the transcoder are 0..MaxExit
MaxClock == 1        \* seconds the clock advances over a behaviour
MaxBatch == 3        \* files of a batch whose names are resolved
MaxText == 2         \* units of a custom file name text
MaxFound == 2        \* files discovered by the command line program
MaxEntries == 2      \* entries of the directory tree under input_path
MaxRunFiles == 2     \* files found by a run of TranscodeWorker

(***************************************************************************)
(* State.                                                                  *)
(***************************************************************************)
VARIABLES
    \* ---- process_files_parallel -------------------------------------
    files,        \* the input list: per file, what process_file returns
    max_threads,  \* the worker limit
    ok, fail, skipped,   \* the nonlocal counters
    counters,     \* the threading.Lock: 0 = free, else the holding thread
    threads,      \* the list `threads` of the main loop
    tstate,       \* per worker thread: its position
    treg,         \* per worker thread: the value loaded by `x += 1`
    par_pc,       \* position of the main thread
    par_i,        \* index of the for loop over files (1-based)
    par_scan,     \* position of the inner scan over `threads`
    \* ---- process_files_sequential -----------------------------------
    seq_files,    \* the input list
    seq_file_cb,  \* file_progress_callback supplied
    seq_prog_cb,  \* progress_callback supplied
    seq_i,        \* number of files processed so far
    seq_ok, seq_fail, seq_skipped,
    seq_progress, \* last (current, total) passed to progress_callback
    seq_log,      \* the calls made so far: callbacks and process_file
    seq_pc,
    \* ---- SonyToPhotoGUI task queue and its TranscodeWorker threads --
    task_queue,            \* list of tasks: [id, status]
    current_task_index,    \* 0-based, as in the source
    is_queue_running,
    is_paused,
    current_queue_worker,  \* the worker object, or None
    queue_ui,              \* the six queue buttons: "idle" or "running"
    detached,              \* replaced worker objects that still act
    signals,               \* finished(ok, fail, skipped) emitted, not yet
                           \* delivered to queue_task_finished (queued
                           \* connection: the slot runs in the GUI thread)
    next_id,               \* identity given to the next task added
    \* ---- process_file (sonyToPhoto.py; transcode_core.py) -----------
    pf_req,       \* the arguments of the call and what probing will give
    pf,           \* the locals of the call in progress and its position
    pf_prev,      \* outcome of the previous call with the same arguments
    disk,         \* the output files that exist
    clock,        \* the latest datetime.now() read, in seconds
    config,       \* sonyToPhoto_config.json: last_gpu_encoder_<codec>
    \* ---- build_ffmpeg_cmd_gpu / build_ffmpeg_cmd ----------------------
    cmd_req,      \* the arguments of the builder
    cmd,          \* the argument vector it returned, <<>> before the call
    \* ---- output naming of a batch ------------------------------------
    name_req,     \* the scheduler, the batch size and the naming options
    resolved,     \* per file handed to process_file, the name it computed
    \* ---- naming check boxes of the window ----------------------------
    gui_config,   \* self.config as load_config returned it
    checks,       \* keep_original_name_check, custom_filename_check, edit
    gui_pc,       \* "constructed" before apply_config, then "ready"
    \* ---- main of transcode_core.py -----------------------------------
    main_args,    \* the parsed command line and what it meets on the system
    main,         \* position, counters, processed files, exit code
    \* ---- detect_gpu_encoders ------------------------------------------
    det_req,      \* the codec and what the run of `ffmpeg -encoders` meets
    det,          \* position of the call and the list it returned
    \* ---- iter_video_files --------------------------------------------
    iter_req,     \* input_path, the tree under it and the recursive flag
    iter,         \* position of the generator and the entries it yielded
    \* ---- TranscodeWorker.run -----------------------------------------
    run_req,      \* what the run meets on the system
    run           \* position of run() and the finished signals it emitted

parVars == <<files, max_threads, ok, fail, skipped, counters, threads,
             tstate, treg, par_pc, par_i, par_scan>>
seqVars == <<seq_files, seq_file_cb, seq_prog_cb, seq_i, seq_ok, seq_fail,
             seq_skipped, seq_progress, seq_log, seq_pc>>

queueVars == <<task_queue, current_task_index, is_queue_running, is_paused,
               current_queue_worker, queue_ui, detached, signals, next_id>>

pfVars == <<pf_req, pf, pf_prev, disk, clock, config>>

cmdVars == <<cmd_req, cmd>>

nameVars == <<name_req, resolved>>

guiVars == <<gui_config, checks, gui_pc>>

mainVars == <<main_args, main>>

detectVars == <<det_req, det>>

iterVars == <<iter_req, iter>>

runVars == <<run_req, run>>

vars == <<parVars, seqVars, queueVars, pfVars,
          cmdVars, nameVars, guiVars, mainVars, detectVars, iterVars, runVars>>

\* what each component leaves alone
notPar == <<seqVars, queueVars, pfVars, cmdVars,
    nameVars, guiVars, mainVars, detectVars, iterVars, runVars>>
notSeq == <<parVars, queueVars, pfVars, cmdVars,
    nameVars, guiVars, mainVars, detectVars, iterVars, runVars>>
notQueue == <<parVars, seqVars, pfVars, cmdVars,
    nameVars, guiVars, mainVars, detectVars, iterVars, runVars>>
notPf == <<parVars, seqVars, queueVars, cmdVars,
    nameVars, guiVars, mainVars, detectVars, iterVars, runVars>>
notCmd == <<parVars, seqVars, queueVars, pfVars,
    nameVars, guiVars, mainVars, detectVars, iterVars, runVars>>
notName == <<parVars, seqVars, queueVars, pfVars,
    cmdVars, guiVars, mainVars, detectVars, iterVars, runVars>>
notGui == <<parVars, seqVars, queueVars, pfVars,
    cmdVars, nameVars, mainVars, detectVars, iterVars, runVars>>
notMain == <<parVars, seqVars, queueVars, pfVars,
    cmdVars, nameVars, guiVars, detectVars, iterVars, runVars>>
notDetect == <<parVars, seqVars, queueVars, pfVars,
    cmdVars, nameVars, guiVars, mainVars, iterVars, runVars>>
notIter == <<parVars, seqVars, queueVars, pfVars,
    cmdVars, nameVars, guiVars, mainVars, detectVars, runVars>>
notRun == <<parVars, seqVars, queueVars, pfVars,
    cmdVars, nameVars, guiVars, mainVars, detectVars, iterVars>>

(***************************************************************************)
(* process_file as seen by the schedulers: a pair (success, message).      *)
(* The schedulers test `"SKIP" in message`; the message embeds the file    *)
(* name, so a file is described by its outcome and by whether its name     *)
(* contains the text SKIP.                                                 *)
(***************************************************************************)
Outcomes == {"ok", "failed", "skipped"}

File == [outcome : Outcomes, skipInName : BOOLEAN]

\* success flag of the tuple returned by process_file
Success(f) == f.outcome \in {"ok", "skipped"}

\* `"SKIP" in message`
MessageHasSKIP(f) == f.outcome = "skipped" \/ f.skipInName

\* the counter a result is added to: if "SKIP" in message / elif success / else
CounterOf(f) ==
    IF MessageHasSKIP(f) THEN "skipped"
    ELSE IF Success(f) THEN "ok"
    ELSE "fail"

SeqsUpTo(S, n) == UNION {[1..k -> S] : k \in 1..n}

(***************************************************************************)
(* process_files_parallel                                                  *)
(***************************************************************************)
NFiles == Len(files)

\* thread.is_alive(): started and its target has not returned
IsAlive(t) == tstate[t] \in {"running", "locked", "loaded"}

AliveThreads == {t \in 1..NFiles : IsAlive(t)}

ParInit ==
    /\ files \in SeqsUpTo(File, MaxFiles)
    /\ max_threads \in 1..MaxThreads
    /\ ok = 0 /\ fail = 0 /\ skipped = 0
    /\ counters = 0
    /\ threads = <<>>
    /\ tstate = [t \in 1..Len(files) |-> "unstarted"]
    /\ treg = [t \in 1..Len(files) |-> 0]
    /\ par_pc = "for"
    /\ par_i = 1
    /\ par_scan = 0

\* for i, in_file in enumerate(files): if len(threads) >= max_threads: ...
ForHead ==
    /\ par_pc = "for"
    /\ IF par_i > NFiles
         THEN par_pc' = "join" /\ par_scan' = 0
         ELSE IF Len(threads) >= max_threads
                THEN par_pc' = "scan" /\ par_scan' = 1
                ELSE par_pc' = "start" /\ par_scan' = 0
    /\ UNCHANGED <<files, max_threads, ok, fail, skipped, counters, threads,
                   tstate, treg, par_i>>
    /\ UNCHANGED notPar

RemoveAt(s, k) == [j \in 1..(Len(s) - 1) |-> IF j < k THEN s[j] ELSE s[j + 1]]

\* for thread in threads: if not thread.is_alive(): join; remove; break
\* One pass only: when every thread is alive the loop ends and the
\* new thread is started all the same.
ScanStep ==
    /\ par_pc = "scan"
    /\ IF par_scan > Len(threads)
         THEN /\ par_pc' = "start"
              /\ par_scan' = 0
              /\ UNCHANGED threads
         ELSE IF ~IsAlive(threads[par_scan])
                THEN /\ threads' = RemoveAt(threads, par_scan)
                     /\ par_pc' = "start"
                     /\ par_scan' = 0
                ELSE /\ par_scan' = par_scan + 1
                     /\ UNCHANGED <<threads, par_pc>>
    /\ UNCHANGED <<files, max_threads, ok, fail, skipped, counters,
                   tstate, treg, par_i>>
    /\ UNCHANGED notPar

\* thread = threading.Thread(...); thread.start(); threads.append(thread)
StartThread ==
    /\ par_pc = "start"
    /\ tstate' = [tstate EXCEPT ![par_i] = "running"]
    /\ threads' = Append(threads, par_i)
    /\ par_i' = par_i + 1
    /\ par_pc' = "for"
    /\ UNCHANGED <<files, max_threads, ok, fail, skipped, counters, treg,
                   par_scan>>
    /\ UNCHANGED notPar

\* for thread in threads: thread.join()
JoinAll ==
    /\ par_pc = "join"
    /\ IF par_scan >= Len(threads)
         THEN par_pc' = "returned" /\ UNCHANGED par_scan
         ELSE /\ ~IsAlive(threads[par_scan + 1])
              /\ par_scan' = par_scan + 1
              /\ UNCHANGED par_pc
    /\ UNCHANGED <<files, max_threads, ok, fail, skipped, counters, threads,
                   tstate, treg, par_i>>
    /\ UNCHANGED notPar

\* A mutant: update_counters without the lock.
LockFreeNoLock(t) == TRUE

\* `with counters:` can be entered
LockFree(t) == counters = 0

\* the thread's target: process_file(...) has returned its result and
\* update_counters enters `with counters:`
Acquire(t) ==
    /\ tstate[t] = "running"
    /\ LockFree(t)
    /\ counters' = t
    /\ tstate' = [tstate EXCEPT ![t] = "locked"]
    /\ UNCHANGED <<files, max_threads, ok, fail, skipped, threads, treg,
                   par_pc, par_i, par_scan>>
    /\ UNCHANGED notPar

CounterValue(c) ==
    CASE c = "skipped" -> skipped
      [] c = "ok" -> ok
      [] c = "fail" -> fail

\* `x += 1` on a nonlocal: the load ...
LoadCounter(t) ==
    /\ tstate[t] = "locked"
    /\ treg' = [treg EXCEPT ![t] = CounterValue(CounterOf(files[t]))]
    /\ tstate' = [tstate EXCEPT ![t] = "loaded"]
    /\ UNCHANGED <<files, max_threads, ok, fail, skipped, counters, threads,
                   par_pc, par_i, par_scan>>
    /\ UNCHANGED notPar

\* ... and the store, then the end of the `with` block and of the thread
StoreCounter(t) ==
    /\ tstate[t] = "loaded"
    /\ LET c == CounterOf(files[t]) IN
         /\ skipped' = IF c = "skipped" THEN treg[t] + 1 ELSE skipped
         /\ ok' = IF c = "ok" THEN treg[t] + 1 ELSE ok
         /\ fail' = IF c = "fail" THEN treg[t] + 1 ELSE fail
    /\ counters' = IF counters = t THEN 0 ELSE counters
    /\ treg' = [treg EXCEPT ![t] = 0]
    /\ tstate' = [tstate EXCEPT ![t] = "dead"]
    /\ UNCHANGED <<files, max_threads, threads, par_pc, par_i, par_scan>>
    /\ UNCHANGED notPar

ParNext ==
    \/ ForHead
    \/ ScanStep
    \/ StartThread
    \/ JoinAll
    \/ \E t \in 1..NFiles : Acquire(t)
    \/ \E t \in 1..NFiles : LoadCounter(t)
    \/ \E t \in 1..NFiles : StoreCounter(t)

(***************************************************************************)
(* process_files_sequential                                                *)
(***************************************************************************)
SeqInit ==
    /\ seq_files \in SeqsUpTo(File, MaxFiles)
    /\ seq_file_cb \in BOOLEAN
    /\ seq_prog_cb \in BOOLEAN
    /\ seq_i = 0
    /\ seq_ok = 0 /\ seq_fail = 0 /\ seq_skipped = 0
    /\ seq_progress = <<0, 0>>
    /\ seq_log = <<>>
    /\ seq_pc = "for"

\* the counter the loop body adds the file to; the three increments sit
\* inside `if file_progress_callback:`
SeqCounterOf(f) ==
    IF seq_file_cb THEN CounterOf(f) ELSE "none"

\* an entry of the log: a call of file_progress_callback with a status, of
\* process_file ("call", then "return"), or of progress_callback
Event(ev, k) == [ev |-> ev, file |-> k, total |-> Len(seq_files)]

\* the status file_progress_callback is given after process_file
FinalStatus(f) ==
    IF MessageHasSKIP(f) THEN "skipped"
    ELSE IF Success(f) THEN "done"
    ELSE "failed"

IterationEventsProgressFirst(k, f) ==
    (IF seq_prog_cb THEN <<Event("progress", k)>> ELSE <<>>)
      \o (IF seq_file_cb THEN <<Event("processing", k)>> ELSE <<>>)
      \o <<Event("call", k), Event("return", k)>>
      \o (IF seq_file_cb THEN <<Event(FinalStatus(f), k)>> ELSE <<>>)

\* the calls of one iteration for the k-th file, in program order
IterationEvents(k, f) ==
    (IF seq_file_cb THEN <<Event("processing", k)>> ELSE <<>>)
      \o <<Event("call", k), Event("return", k)>>
      \o (IF seq_file_cb THEN <<Event(FinalStatus(f), k)>> ELSE <<>>)
      \o (IF seq_prog_cb THEN <<Event("progress", k)>> ELSE <<>>)

\* one iteration of `for i, in_file in enumerate(files)`
SeqProcessOne ==
    /\ seq_pc = "for"
    /\ seq_i < Len(seq_files)
    /\ LET c == SeqCounterOf(seq_files[seq_i + 1]) IN
         /\ seq_skipped' = IF c = "skipped" THEN seq_skipped + 1 ELSE seq_skipped
         /\ seq_ok' = IF c = "ok" THEN seq_ok + 1 ELSE seq_ok
         /\ seq_fail' = IF c = "fail" THEN seq_fail + 1 ELSE seq_fail
    /\ seq_progress' = IF seq_prog_cb THEN <<seq_i + 1, Len(seq_files)>>
                       ELSE seq_progress
    /\ seq_log' = seq_log \o IterationEvents(seq_i + 1, seq_files[seq_i + 1])
    /\ seq_i' = seq_i + 1
    /\ UNCHANGED <<seq_files, seq_file_cb, seq_prog_cb, seq_pc>>
    /\ UNCHANGED notSeq

\* return ok, fail, skipped
SeqReturn ==
    /\ seq_pc = "for"
    /\ seq_i = Len(seq_files)
    /\ seq_pc' = "returned"
    /\ UNCHANGED <<seq_files, seq_file_cb, seq_prog_cb, seq_i, seq_ok,
                   seq_fail, seq_skipped, seq_progress, seq_log>>
    /\ UNCHANGED notSeq

SeqNext ==
    \/ SeqProcessOne
    \/ SeqReturn

(***************************************************************************)
(* TranscodeWorker (a QThread) as the queue sees it, and the external      *)
(* transcoder process that run() of transcode_core starts for it.          *)
(*   pc: "between"     in TranscodeWorker.run / process_files_sequential / *)
(*                     process_file, no invocation in flight               *)
(*       "polling"     in run(): Popen done, at `while is_paused()`        *)
(*       "communicate" in run(): blocked in p.communicate()                *)
(*       "emitted"     finished(...) emitted, run() not yet returned       *)
(*       "finished"    run() returned (isRunning() is False)               *)
(*       "terminated"  killed by QThread.terminate(), no child running     *)
(*       "orphaned"    killed by QThread.terminate() while its child       *)
(*                     process runs: the child runs on                     *)
(*   task: the task the worker was created for                             *)
(* current_queue_worker is the object the controller refers to. detached   *)
(* is the bag of the worker objects it has replaced whose thread is still  *)
(* at work or whose child process still runs; any other replaced object    *)
(* has no effect left and leaves the model. What a thread never reads      *)
(* again is kept at a fixed value: its pause flag and its task once it has *)
(* emitted finished or is gone.                                            *)
(***************************************************************************)
\* task['status']: the display strings of the code for waiting, running,
\* paused, done, failed and stopped
Statuses == {"waiting", "running", "paused", "done", "failed", "stopped"}

\* self.current_queue_worker = None
None == [task |-> 0, pc |-> "none", is_paused |-> FALSE]

NewWorker(taskId) == [task |-> taskId, pc |-> "between", is_paused |-> FALSE]

\* the thread is in the work of its task: it will still read its pause flag
Working(w) == w.pc \in {"between", "polling", "communicate"}

\* the child process started by Popen runs
ProcRunning(w) == w.pc \in {"polling", "communicate", "orphaned"}

\* QThread.isRunning()
IsRunning(w) == w.pc \in {"between", "polling", "communicate", "emitted"}

\* a replaced worker object that still has an effect
StillActs(w) == Working(w) \/ w.pc = "orphaned"

\* the controller's fields as one value, so that the handlers below are
\* functions of it; full records that a replaced worker could not be kept
\* within MaxDetached
Gui ==
    [q |-> task_queue, idx |-> current_task_index, run |-> is_queue_running,
     paused |-> is_paused, cur |-> current_queue_worker, ui |-> queue_ui,
     det |-> detached, full |-> FALSE]

SetGui(g) ==
    /\ ~g.full
    /\ task_queue' = g.q
    /\ current_task_index' = g.idx
    /\ is_queue_running' = g.run
    /\ is_paused' = g.paused
    /\ current_queue_worker' = g.cur
    /\ queue_ui' = g.ui
    /\ detached' = g.det

QueueInit ==
    /\ task_queue = <<>>
    /\ current_task_index = 0
    /\ is_queue_running = FALSE
    /\ is_paused = FALSE
    /\ current_queue_worker = None
    /\ queue_ui = "idle"
    /\ detached = EmptyBag
    /\ signals = <<>>
    /\ next_id = 1

\* reset_queue_ui / the setEnabled calls of start_task_queue
StartEnabled == queue_ui = "idle"
AddEnabled == queue_ui = "idle"
RemoveEnabled == queue_ui = "idle"
ClearEnabled == queue_ui = "idle"
PauseEnabled == queue_ui = "running"
StopEnabled == queue_ui = "running"

\* update_task_table puts a remove button on every row, wired to
\* remove_task_by_index(row); nothing ever disables these buttons
RowButtonEnabled(row) == row \in 0..(Len(task_queue) - 1)

\* a worker object the controller no longer refers to: which task it was
\* created for has no effect on anything it does to the controller
Detached(w) == [w EXCEPT !.task = 0]

\* self.current_queue_worker = TranscodeWorker(...); ....start()
ReplaceWorker(g, taskId) ==
    IF StillActs(g.cur)
      THEN IF BagCardinality(g.det) >= MaxDetached
             THEN [g EXCEPT !.full = TRUE]
             ELSE [g EXCEPT !.det = g.det (+) SetToBag({Detached(g.cur)}),
                            !.cur = NewWorker(taskId)]
      ELSE [g EXCEPT !.cur = NewWorker(taskId)]

\* execute_next_task without the test of is_paused
ExecuteNextTaskIgnoringPause(g) ==
    IF ~g.run \/ g.idx >= Len(g.q)
      THEN g
      ELSE ReplaceWorker([g EXCEPT !.q[g.idx + 1].status = "running"],
                         g.q[g.idx + 1].id)

\* execute_next_task
ExecuteNextTask(g) ==
    IF ~g.run \/ g.paused \/ g.idx >= Len(g.q)
      THEN g
      ELSE ReplaceWorker([g EXCEPT !.q[g.idx + 1].status = "running"],
                         g.q[g.idx + 1].id)

\* start_task_queue
StartTaskQueue(g) ==
    IF Len(g.q) = 0 THEN g
    ELSE IF g.run THEN g
    ELSE ExecuteNextTask([g EXCEPT !.idx = 0, !.run = TRUE, !.paused = FALSE,
                                   !.ui = "running"])

\* queue_task_finished(ok, fail, skipped); failed stands for fail > 0
QueueTaskFinished(g, failed) ==
    IF g.idx < Len(g.q)
      THEN LET g1 == [g EXCEPT !.q[g.idx + 1].status =
                                   IF failed THEN "failed" ELSE "done",
                               !.idx = g.idx + 1]
           IN  IF g1.idx >= Len(g1.q)
                 THEN [g1 EXCEPT !.run = FALSE, !.ui = "idle"]
                 ELSE ExecuteNextTask(g1)
      ELSE g

\* worker.is_paused = v
SetPaused(w, v) == IF Working(w) THEN [w EXCEPT !.is_paused = v] ELSE w

\* pause_resume_task
PauseResumeTask(g) ==
    IF ~g.run THEN g
    ELSE LET g1 == [g EXCEPT !.paused = ~g.paused] IN
         IF g1.paused
           THEN IF g1.cur # None /\ IsRunning(g1.cur)
                  THEN LET g2 == [g1 EXCEPT !.cur = SetPaused(g1.cur, TRUE)] IN
                       IF g2.idx < Len(g2.q)
                         THEN [g2 EXCEPT !.q[g2.idx + 1].status = "paused"]
                         ELSE g2
                  ELSE g1
           ELSE IF g1.cur # None /\ g1.idx < Len(g1.q)
                  THEN [g1 EXCEPT !.cur = SetPaused(g1.cur, FALSE),
                                  !.q[g1.idx + 1].status = "running"]
                  ELSE ExecuteNextTask(g1)

\* QThread.terminate() then wait(): the thread is killed; the child process
\* it started with Popen is a separate OS process and is left as it is
Terminate(w) ==
    [task |-> 0, pc |-> IF ProcRunning(w) THEN "orphaned" ELSE "terminated",
     is_paused |-> FALSE]

\* stop_task_queue without the reset of the position
StopTaskQueueKeepsIndex(g) ==
    LET g1 == IF g.cur # None /\ IsRunning(g.cur)
                THEN [g EXCEPT !.cur = Terminate(g.cur)]
                ELSE g
        q2 == [k \in 1..Len(g1.q) |->
                 IF k - 1 >= g1.idx
                   THEN [g1.q[k] EXCEPT !.status = "stopped"]
                   ELSE g1.q[k]]
    IN  [g1 EXCEPT !.q = q2, !.run = FALSE, !.paused = FALSE, !.ui = "idle"]

\* stop_task_queue
StopTaskQueue(g) ==
    LET g1 == IF g.cur # None /\ IsRunning(g.cur)
                THEN [g EXCEPT !.cur = Terminate(g.cur)]
                ELSE g
        q2 == [k \in 1..Len(g1.q) |->
                 IF k - 1 >= g1.idx
                   THEN [g1.q[k] EXCEPT !.status = "stopped"]
                   ELSE g1.q[k]]
    IN  [g1 EXCEPT !.q = q2, !.run = FALSE, !.paused = FALSE, !.idx = 0,
                   !.ui = "idle"]

\* list.pop(index), 0-based
Pop(q, index) == RemoveAt(q, index + 1)

\* remove_task_by_index
RemoveTaskByIndex(g, index) ==
    IF 0 <= index /\ index < Len(g.q)
      THEN [g EXCEPT !.q = Pop(g.q, index)]
      ELSE g

\* remove_selected_task: rows is the list of rows of the selected cells,
\* sorted in descending order
RECURSIVE RemoveRows(_, _)
RemoveRows(q, rows) ==
    IF rows = <<>> THEN q
    ELSE LET row == Head(rows) IN
         RemoveRows(IF 0 <= row /\ row < Len(q) THEN Pop(q, row) ELSE q,
                    Tail(rows))

\* clear_task_queue
ClearTaskQueue(g) == [g EXCEPT !.q = <<>>]

(***************************************************************************)
(* Events of the GUI thread                                                *)
(***************************************************************************)
\* add_task_to_queue (with both paths filled in)
AddTask ==
    /\ AddEnabled
    /\ next_id <= MaxTasks
    /\ task_queue' = Append(task_queue, [id |-> next_id, status |-> "waiting"])
    /\ next_id' = next_id + 1
    /\ UNCHANGED <<current_task_index, is_queue_running, is_paused,
                   current_queue_worker, queue_ui, detached, signals>>
    /\ UNCHANGED notQueue

\* the descending lists of rows a selection of cells can give: every row
\* selected in zero, one or two of its cells
RECURSIVE RowList(_, _)
RowList(mult, row) ==
    IF row < 0 THEN <<>>
    ELSE [k \in 1..mult[row] |-> row] \o RowList(mult, row - 1)

Selections(len) ==
    {RowList(mult, len - 1) : mult \in [0..(len - 1) -> 0..2]}

RemoveSelected ==
    /\ RemoveEnabled
    /\ \E rows \in Selections(Len(task_queue)) :
         task_queue' = RemoveRows(task_queue, rows)
    /\ UNCHANGED <<current_task_index, is_queue_running, is_paused,
                   current_queue_worker, queue_ui, detached, signals, next_id>>
    /\ UNCHANGED notQueue

ClearQueue ==
    /\ ClearEnabled
    /\ SetGui(ClearTaskQueue(Gui))
    /\ UNCHANGED <<signals, next_id>>
    /\ UNCHANGED notQueue

RemoveByRowButton ==
    /\ \E row \in 0..(Len(task_queue) - 1) :
         /\ RowButtonEnabled(row)
         /\ SetGui(RemoveTaskByIndex(Gui, row))
    /\ UNCHANGED <<signals, next_id>>
    /\ UNCHANGED notQueue

\* start_task_queue; a click on the disabled button does nothing, and the
\* handler itself returns when the queue is empty or already running
StartQueue ==
    /\ SetGui(IF StartEnabled THEN StartTaskQueue(Gui) ELSE Gui)
    /\ UNCHANGED <<signals, next_id>>
    /\ UNCHANGED notQueue

PauseResume ==
    /\ PauseEnabled
    /\ SetGui(PauseResumeTask(Gui))
    /\ UNCHANGED <<signals, next_id>>
    /\ UNCHANGED notQueue

StopQueue ==
    /\ StopEnabled
    /\ SetGui(StopTaskQueue(Gui))
    /\ UNCHANGED <<signals, next_id>>
    /\ UNCHANGED notQueue

\* the event loop delivers the oldest pending finished signal
DeliverFinished ==
    /\ signals # <<>>
    /\ SetGui(QueueTaskFinished(Gui, Head(signals).failed))
    /\ signals' = Tail(signals)
    /\ UNCHANGED next_id
    /\ UNCHANGED notQueue

(***************************************************************************)
(* Steps of a worker thread and of its child process. A step is taken by   *)
(* the current worker (h.cur) or by a detached one (the object h.w).       *)
(***************************************************************************)
CurHandle == [cur |-> TRUE, w |-> current_queue_worker]

Handles ==
    {CurHandle} \cup {[cur |-> FALSE, w |-> r] : r \in BagToSet(detached)}

\* the worker h becomes w2
Put(h, w2) ==
    IF h.cur
      THEN /\ current_queue_worker' = w2
           /\ UNCHANGED detached
      ELSE /\ detached' = IF StillActs(w2)
                            THEN (detached (-) SetToBag({h.w})) (+) SetToBag({w2})
                            ELSE detached (-) SetToBag({h.w})
           /\ UNCHANGED current_queue_worker

OnlyWorkers ==
    UNCHANGED <<task_queue, current_task_index, is_queue_running, is_paused,
                queue_ui, next_id>>

\* run(): p = subprocess.Popen(cmd, ...)
WorkerPopen(h) ==
    /\ h.w.pc = "between"
    /\ Put(h, [h.w EXCEPT !.pc = "polling"])
    /\ UNCHANGED signals
    /\ OnlyWorkers
    /\ UNCHANGED notQueue

\* whether the loop `while is_paused and is_paused(): time.sleep(0.5)` goes on
PollAgain(w) == w.is_paused

\* run(): the loop ends
WorkerPollExit(h) ==
    /\ h.w.pc = "polling"
    /\ ~PollAgain(h.w)
    /\ Put(h, [h.w EXCEPT !.pc = "communicate"])
    /\ UNCHANGED signals
    /\ OnlyWorkers
    /\ UNCHANGED notQueue

\* run(): the child exits, p.communicate() returns, the return code is
\* observed
WorkerObserve(h) ==
    /\ h.w.pc = "communicate"
    /\ Put(h, [h.w EXCEPT !.pc = "between"])
    /\ UNCHANGED signals
    /\ OnlyWorkers
    /\ UNCHANGED notQueue

\* the child of a killed thread exits by itself
OrphanExit(h) ==
    /\ h.w.pc = "orphaned"
    /\ Put(h, [h.w EXCEPT !.pc = "terminated"])
    /\ UNCHANGED signals
    /\ OnlyWorkers
    /\ UNCHANGED notQueue

\* TranscodeWorker.run: self.finished.emit(ok, fail, skipped), on the
\* error paths (0, 1, 0), with no input file (0, 0, 0)
WorkerEmit(h) ==
    /\ h.w.pc = "between"
    /\ Len(signals) < MaxSignals
    /\ \E failed \in BOOLEAN :
         signals' = Append(signals, [failed |-> failed])
    /\ Put(h, [task |-> 0, pc |-> "emitted", is_paused |-> FALSE])
    /\ OnlyWorkers
    /\ UNCHANGED notQueue

\* TranscodeWorker.run returns
WorkerReturn(h) ==
    /\ h.w.pc = "emitted"
    /\ Put(h, [h.w EXCEPT !.pc = "finished"])
    /\ UNCHANGED signals
    /\ OnlyWorkers
    /\ UNCHANGED notQueue

WorkerNext ==
    \/ \E h \in Handles : WorkerPopen(h)
    \/ \E h \in Handles : WorkerPollExit(h)
    \/ \E h \in Handles : WorkerObserve(h)
    \/ \E h \in Handles : OrphanExit(h)
    \/ \E h \in Handles : WorkerEmit(h)
    \/ \E h \in Handles : WorkerReturn(h)

QueueNext ==
    \/ AddTask
    \/ RemoveSelected
    \/ ClearQueue
    \/ RemoveByRowButton
    \/ StartQueue
    \/ PauseResume
    \/ StopQueue
    \/ DeliverFinished
    \/ WorkerNext

(***************************************************************************)
(* process_file of sonyToPhoto.py: the skip test, the list of encoders to  *)
(* try, the fallback chain and the value it persists. process_file of      *)
(* transcode_core.py is the same call with no hardware encoder and no      *)
(* timestamp. The naming options are at their defaults but add_timestamp   *)
(* (keep_original_name true, custom_filename false), and test_mode acts    *)
(* as dry_run does.                                                        *)
(***************************************************************************)
Codecs == {"hevc", "h264"}

\* gpu_encoder = None (or an empty string): no hardware encoder requested
NoEncoder == "None"

\* detect_gpu_encoders: the keys of encoder_mappings
encoder_mappings(codec) ==
    IF codec = "hevc"
      THEN {"h265_nvenc", "hevc_amf", "hevc_qsv", "hevc_videotoolbox"}
      ELSE {"h264_nvenc", "h264_amf", "h264_qsv", "h264_videotoolbox"}

priority_order_amd_first(codec) ==
    IF codec = "hevc"
      THEN <<"hevc_amf", "h265_nvenc", "hevc_qsv">>
      ELSE <<"h264_amf", "h264_nvenc", "h264_qsv">>

\* process_file: priority_order
priority_order(codec) ==
    IF codec = "hevc"
      THEN <<"h265_nvenc", "hevc_qsv", "hevc_amf">>
      ELSE <<"h264_nvenc", "h264_qsv", "h264_amf">>

\* process_file: encoder_name_map.get(encoder_to_try, 'Unknown')
encoder_name_map(e) ==
    CASE e \in {"h265_nvenc", "h264_nvenc"} -> "NVIDIA"
      [] e \in {"hevc_qsv", "h264_qsv"} -> "Intel"
      [] e \in {"hevc_amf", "h264_amf"} -> "AMD"
      [] OTHER -> "Unknown"

\* an identifier that no table of the program knows
Unrecognized == "hevc_nvenc"

\* what probing gives: "ok" with the known identifiers found in the output
\* of `ffmpeg -encoders`; "empty" when detect_gpu_encoders fails inside and
\* returns []; "raised" when which_ffmpeg raises
Probes(codec) ==
    {[probe |-> "ok", encoders_output |-> out] :
        out \in SUBSET encoder_mappings(codec)}
      \cup {[probe |-> "empty", encoders_output |-> {}],
            [probe |-> "raised", encoders_output |-> {}]}

\* with no hardware encoder requested nothing is probed
Unprobed ==
    [gpu_encoder : {NoEncoder}, codec : Codecs, overwrite : BOOLEAN,
     skip_existing : BOOLEAN, dry_run : BOOLEAN, add_timestamp : BOOLEAN,
     probe : {"ok", "empty", "raised"},
     encoders_output : UNION {SUBSET encoder_mappings(c) : c \in Codecs}]

RequestsOf(codec) ==
    {[gpu_encoder |-> g, codec |-> codec, overwrite |-> ow,
      skip_existing |-> sk, dry_run |-> dr, add_timestamp |-> ts,
      probe |-> pr.probe, encoders_output |-> pr.encoders_output] :
        g \in encoder_mappings(codec) \cup {NoEncoder, Unrecognized},
        ow \in BOOLEAN, sk \in BOOLEAN, dr \in BOOLEAN, ts \in BOOLEAN,
        pr \in Probes(codec)}
      \ {r \in Unprobed : r.probe # "ok" \/ r.encoders_output # {}}

Requests == UNION {RequestsOf(codec) : codec \in Codecs}

\* out_file = output_dir / f"{base_name}.mp4"
OutFile(req, now) ==
    [base_name |-> "stem", timestamp |-> IF req.add_timestamp THEN now ELSE 0 - 1,
     custom_suffix |-> "_hlg_phone"]

\* detect_gpu_encoders(ffmpeg_path, codec), as a set of keys
detect_gpu_encoders(req) ==
    IF req.probe = "ok" THEN req.encoders_output ELSE {}

Range(s) == {s[k] : k \in 1..Len(s)}

\* the requested encoder listed twice
AvailableEncodersRepeated(req) == <<req.gpu_encoder, req.gpu_encoder>>

AvailableEncodersAll(req) ==
    IF req.probe = "raised" THEN priority_order(req.codec)
    ELSE <<NoEncoder>>

\* process_file: available_encoders
AvailableEncoders(req) ==
    IF req.probe = "raised" THEN <<req.gpu_encoder>>
    ELSE LET encoder_dict == detect_gpu_encoders(req)
             first == IF req.gpu_encoder \in encoder_dict
                        THEN <<req.gpu_encoder>> ELSE <<>>
             InOrder(e) == e \in encoder_dict /\ e \notin Range(first)
             listed == first \o SelectSeq(priority_order(req.codec), InOrder)
         IN  IF listed = <<>> THEN <<NoEncoder>> ELSE listed

\* the tuples process_file returns: (success, message), the message by its
\* fixed part, the brand it names and the exit code it carries
NoResult == [success |-> FALSE, tag |-> "none", brand |-> "", rc |-> 0]
Skip == [success |-> TRUE, tag |-> "SKIP (exists)", brand |-> "", rc |-> 0]
OkGpu == [success |-> TRUE, tag |-> "OK (GPU)", brand |-> "", rc |-> 0]
OkBrandAsGpu(e) ==
    [success |-> TRUE, tag |-> "OK (GPU)", brand |-> "", rc |-> 0]

OkBrand(e) ==
    [success |-> TRUE, tag |-> "OK (brand fallback)",
     brand |-> encoder_name_map(e), rc |-> 0]
OkCpuAsGpu == [success |-> TRUE, tag |-> "OK (GPU)", brand |-> "", rc |-> 0]

OkCpuFallback ==
    [success |-> TRUE, tag |-> "OK (CPU fallback)", brand |-> "", rc |-> 0]
FailedAll(rc) ==
    [success |-> FALSE, tag |-> "FAILED (all encoders failed)", brand |-> "",
     rc |-> rc]
OkPlain == [success |-> TRUE, tag |-> "OK", brand |-> "", rc |-> 0]
Failed(rc) == [success |-> FALSE, tag |-> "FAILED", brand |-> "", rc |-> rc]
Error == [success |-> FALSE, tag |-> "ERROR", brand |-> "", rc |-> 0]

\* the outcome status a returned tuple stands for
Kind(result) ==
    CASE result.tag \in {"OK", "OK (GPU)"} -> "ok"
      [] result.tag \in {"OK (brand fallback)", "OK (CPU fallback)"}
           -> "ok-fallback"
      [] result.tag = "SKIP (exists)" -> "skipped"
      [] result.tag \in {"FAILED", "FAILED (all encoders failed)"} -> "failed"
      [] result.tag = "ERROR" -> "error"
      [] OTHER -> "none"

\* no call in progress
PfIdleState ==
    [pc |-> "idle", out_file |-> OutFile(pf_req, 0), existed |-> FALSE,
     candidates |-> <<>>, available_encoders |-> <<>>, tried |-> <<>>,
     result |-> NoResult]

NoConfig == [codec \in Codecs |-> NoEncoder]

PfInit ==
    /\ pf_req \in Requests
    /\ pf = PfIdleState
    /\ pf_prev = "none"
    /\ disk \in {{}, {OutFile(pf_req, 0)}}
    /\ clock = 0
    /\ config = NoConfig

\* run(cmd, dry_run, test_mode, is_paused): 0..MaxExit is the value it
\* returns, -1 an exception that escapes it (Popen or communicate raising
\* other than FileNotFoundError / SubprocessError)
RunOutcomes(req) == IF req.dry_run THEN {0} ELSE (0 - 1)..MaxExit

\* a transcoder process is started
Spawns(req) == ~req.dry_run

AfterRunNoWrite(req, out_file, rc) == disk

\* the transcoder has written out_file when it exits 0
AfterRun(req, out_file, rc) ==
    IF Spawns(req) /\ rc = 0 THEN disk \cup {out_file} ELSE disk

Attempt(req, e, rc) == [encoder |-> e, rc |-> rc, spawned |-> Spawns(req)]

\* save_last_gpu_encoder_global(encoder, codec): the write may fail, and
\* the failure is swallowed
save_last_gpu_encoder_global(cfg, encoder, codec, written) ==
    IF encoder = NoEncoder \/ ~written THEN cfg
    ELSE [cfg EXCEPT ![codec] = encoder]

\* datetime.datetime.now(), read when add_timestamp is set: time does not
\* go backwards
Now == IF pf_req.add_timestamp THEN clock..MaxClock ELSE {clock}

ShouldSkipIgnoringOverwrite(req, existed) == existed /\ req.skip_existing

\* if out_file.exists() and not overwrite and skip_existing
ShouldSkip(req, existed) == existed /\ ~req.overwrite /\ req.skip_existing

\* the call: output name, skip test, list of encoders to try
PfCall ==
    /\ pf.pc = "idle"
    /\ \E now \in Now :
       LET out_file == OutFile(pf_req, now)
           existed == out_file \in disk
           entered == [pf EXCEPT !.out_file = out_file, !.existed = existed]
       IN /\ IF ShouldSkip(pf_req, existed)
             THEN pf' = [entered EXCEPT !.pc = "returned", !.result = Skip]
             ELSE IF pf_req.gpu_encoder # NoEncoder
               THEN pf' = [entered EXCEPT
                              !.pc = "loop",
                              !.candidates = AvailableEncoders(pf_req),
                              !.available_encoders = AvailableEncoders(pf_req)]
               ELSE pf' = [entered EXCEPT !.pc = "cpu_only"]
          /\ clock' = now
    /\ UNCHANGED <<pf_req, pf_prev, disk, config>>
    /\ UNCHANGED notPf

\* the call returns result after the attempt (e, rc)
Returns(e, rc, result) ==
    pf' = [pf EXCEPT !.pc = "returned",
                     !.tried = Append(pf.tried, Attempt(pf_req, e, rc)),
                     !.result = result]

\* an iteration of `for encoder_to_try in available_encoders` with a
\* hardware encoder
PfTryEncoder ==
    /\ pf.pc = "loop"
    /\ pf.available_encoders # <<>>
    /\ LET encoder_to_try == Head(pf.available_encoders) IN
       /\ encoder_to_try # NoEncoder
       /\ \E rc \in RunOutcomes(pf_req) :
            /\ disk' = AfterRun(pf_req, pf.out_file, rc)
            /\ IF rc = 0 - 1
                 THEN /\ Returns(encoder_to_try, rc, Error)
                      /\ UNCHANGED config
               ELSE IF rc = 0
                 THEN /\ \E written \in BOOLEAN :
                           config' = save_last_gpu_encoder_global(
                                       config, encoder_to_try, pf_req.codec,
                                       written)
                      /\ Returns(encoder_to_try, rc,
                                 IF encoder_to_try = pf_req.gpu_encoder
                                   THEN OkGpu ELSE OkBrand(encoder_to_try))
               ELSE /\ pf' = [pf EXCEPT
                                !.available_encoders = Tail(@),
                                !.tried = Append(@, Attempt(pf_req,
                                                   encoder_to_try, rc))]
                    /\ UNCHANGED config
    /\ UNCHANGED <<pf_req, pf_prev, clock>>
    /\ UNCHANGED notPf

\* the CPU command: exit 0 gives ok, anything else failed
CpuRun(onZero, onFail) ==
    \E rc \in RunOutcomes(pf_req) :
      /\ disk' = AfterRun(pf_req, pf.out_file, rc)
      /\ Returns(NoEncoder, rc,
                 IF rc = 0 - 1 THEN Error
                 ELSE IF rc = 0 THEN onZero ELSE onFail[rc])

FailedAllOfFirst == [rc \in 1..MaxExit |-> FailedAll(1)]

FailedAllOf == [rc \in 1..MaxExit |-> FailedAll(rc)]

FailedOf == [rc \in 1..MaxExit |-> Failed(rc)]

\* the iteration with `encoder_to_try is None`: no encoder was available
PfTryNone ==
    /\ pf.pc = "loop"
    /\ pf.available_encoders # <<>>
    /\ Head(pf.available_encoders) = NoEncoder
    /\ CpuRun(OkCpuFallback, FailedAllOf)
    /\ UNCHANGED <<pf_req, pf_prev, clock, config>>
    /\ UNCHANGED notPf

\* after the loop: every encoder of the list has failed
PfFinalCpu ==
    /\ pf.pc = "loop"
    /\ pf.available_encoders = <<>>
    /\ CpuRun(OkCpuFallback, FailedAllOf)
    /\ UNCHANGED <<pf_req, pf_prev, clock, config>>
    /\ UNCHANGED notPf

\* no hardware encoder requested
PfCpuOnly ==
    /\ pf.pc = "cpu_only"
    /\ CpuRun(OkPlain, FailedOf)
    /\ UNCHANGED <<pf_req, pf_prev, clock, config>>
    /\ UNCHANGED notPf

\* the same request is submitted a second time
PfAgain ==
    /\ pf.pc = "returned"
    /\ pf_prev = "none"
    /\ pf' = PfIdleState
    /\ pf_prev' = Kind(pf.result)
    /\ UNCHANGED <<pf_req, disk, clock, config>>
    /\ UNCHANGED notPf

\* SonyToPhotoGUI.save_config, connected to every settings widget: it
\* rewrites the whole file, the two last_gpu_encoder keys from attributes
\* that nothing sets
SaveConfig ==
    /\ config' = NoConfig
    /\ UNCHANGED <<pf_req, pf, pf_prev, disk, clock>>
    /\ UNCHANGED notPf

PfNext ==
    \/ PfCall
    \/ PfTryEncoder
    \/ PfTryNone
    \/ PfFinalCpu
    \/ PfCpuOnly
    \/ PfAgain
    \/ SaveConfig

(***************************************************************************)
(* build_ffmpeg_cmd_gpu (sonyToPhoto.py) and build_ffmpeg_cmd              *)
(* (transcode_core.py): the argument vector of the transcoder.  An         *)
(* argument is a token with its text; the value of -x265-params /          *)
(* -x264-params, a colon-separated list of key=value, is a token with the  *)
(* list of its <<key, value>> pairs.                                       *)
(***************************************************************************)
Arg(s) == [text |-> s, params |-> <<>>]
Args(ss) == [i \in 1..Len(ss) |-> Arg(ss[i])]
ParamsArg(kv) == [text |-> "", params |-> kv]

\* the encoder choices: none, the identifiers of both codecs, and two
\* identifiers no branch names
OtherUnrecognized == "h264_vaapi"
EncoderChoices ==
    {NoEncoder, Unrecognized, OtherUnrecognized}
      \cup encoder_mappings("hevc") \cup encoder_mappings("h264")

\* `needle in gpu_encoder`, on the encoder choices
Contains(needle, gpu_encoder) ==
    CASE needle = "nvenc" ->
           gpu_encoder \in {"h265_nvenc", "h264_nvenc", "hevc_nvenc"}
      [] needle = "amf" -> gpu_encoder \in {"hevc_amf", "h264_amf"}
      [] needle = "qsv" -> gpu_encoder \in {"hevc_qsv", "h264_qsv"}
      [] needle = "videotoolbox" ->
           gpu_encoder \in {"hevc_videotoolbox", "h264_videotoolbox"}
      [] OTHER -> FALSE

Crfs == {18, 23}
Presets == {"medium", "Slow"}
NoFps == 0
FpsChoices == {NoFps, 30}
AudioBitrates == {"192k", "320k"}

\* preset.lower()
Lower(preset) == IF preset = "Slow" THEN "slow" ELSE preset

CmdRequests ==
    [builder : {"build_ffmpeg_cmd_gpu"}, codec : Codecs,
     gpu_encoder : EncoderChoices, overwrite : BOOLEAN, crf : Crfs,
     preset : Presets, fps : FpsChoices, audio_bitrate : AudioBitrates]
    \cup
    [builder : {"build_ffmpeg_cmd"}, codec : {"hevc"},
     gpu_encoder : {NoEncoder}, overwrite : BOOLEAN, crf : Crfs,
     preset : Presets, fps : FpsChoices, audio_bitrate : AudioBitrates]

x265_params_untagged == <<<<"profile", "main10">>, <<"level", "5.1">>>>

x265_params ==
    <<<<"profile", "main10">>, <<"level", "5.1">>,
      <<"colorprim", "bt2020">>, <<"transfer", "arib-std-b67">>,
      <<"colormatrix", "bt2020nc">>>>

x264_params ==
    <<<<"profile", "high">>, <<"level", "5.1">>,
      <<"colorprim", "bt2020">>, <<"transfer", "arib-std-b67">>,
      <<"colormatrix", "bt2020nc">>>>

\* cmd = [ffmpeg, "-hide_banner", "-y" if overwrite else "-n", "-i", ...]
BaseCmd(req) ==
    Args(<<"ffmpeg", "-hide_banner", IF req.overwrite THEN "-y" ELSE "-n",
           "-i", "in_file", "-map", "0:v:0", "-map", "0:a?">>)

\* the software encoder with its parameter list
Libx265(req) ==
    Args(<<"-c:v", "libx265", "-preset", req.preset,
           "-crf", ToString(req.crf), "-pix_fmt", "yuv420p10le",
           "-x265-params">>) \o <<ParamsArg(x265_params)>>

Libx264(req) ==
    Args(<<"-c:v", "libx264", "-preset", req.preset,
           "-crf", ToString(req.crf), "-pix_fmt", "yuv420p",
           "-x264-params">>) \o <<ParamsArg(x264_params)>>

\* the branch `if codec == 'hevc'` under `gpu_encoder is not None`
HevcGpuArgs(req) ==
    CASE req.gpu_encoder = "h265_nvenc" ->
           Args(<<"-c:v", "h265_nvenc", "-preset", Lower(req.preset),
                  "-cq", ToString(req.crf), "-pix_fmt", "yuv420p10le",
                  "-color_primaries", "bt2020",
                  "-color_trc", "arib-std-b67",
                  "-colorspace", "bt2020nc">>)
      [] req.gpu_encoder = "hevc_amf" ->
           Args(<<"-c:v", "hevc_amf", "-quality", "quality", "-rc", "cqp",
                  "-qmin", ToString(req.crf), "-qmax", ToString(req.crf),
                  "-pix_fmt", "p010le",
                  "-color_primaries", "bt2020",
                  "-color_trc", "arib-std-b67",
                  "-colorspace", "bt2020nc">>)
      [] req.gpu_encoder = "hevc_qsv" ->
           Args(<<"-c:v", "hevc_qsv", "-preset", Lower(req.preset),
                  "-crf", ToString(req.crf), "-pix_fmt", "yuv420p10le",
                  "-color_primaries", "bt2020",
                  "-color_trc", "arib-std-b67",
                  "-colorspace", "bt2020nc">>)
      [] req.gpu_encoder = "hevc_videotoolbox" ->
           Args(<<"-c:v", "hevc_videotoolbox", "-quality", "medium",
                  "-crf", ToString(req.crf), "-pix_fmt", "yuv420p10le",
                  "-color_primaries", "bt2020",
                  "-color_trc", "arib-std-b67",
                  "-colorspace", "bt2020nc">>)
      [] OTHER -> Libx265(req)

\* the branch `else:  # H.264` under `gpu_encoder is not None`
H264GpuArgs(req) ==
    IF Contains("nvenc", req.gpu_encoder)
      THEN Args(<<"-c:v", "h264_nvenc", "-preset", Lower(req.preset),
                  "-cq", ToString(req.crf), "-pix_fmt", "yuv420p",
                  "-color_primaries", "bt2020",
                  "-color_trc", "arib-std-b67",
                  "-colorspace", "bt2020nc">>)
    ELSE IF Contains("amf", req.gpu_encoder)
      THEN Args(<<"-c:v", "h264_amf", "-quality", "quality", "-rc", "cqp",
                  "-qmin", ToString(req.crf), "-qmax", ToString(req.crf),
                  "-pix_fmt", "yuv420p",
                  "-color_primaries", "bt2020",
                  "-color_trc", "arib-std-b67",
                  "-colorspace", "bt2020nc">>)
    ELSE IF Contains("qsv", req.gpu_encoder)
      THEN Args(<<"-c:v", "h264_qsv", "-preset", Lower(req.preset),
                  "-crf", ToString(req.crf), "-pix_fmt", "yuv420p",
                  "-color_primaries", "bt2020",
                  "-color_trc", "arib-std-b67",
                  "-colorspace", "bt2020nc">>)
    ELSE IF Contains("videotoolbox", req.gpu_encoder)
      THEN Args(<<"-c:v", "h264_videotoolbox", "-quality", "medium",
                  "-crf", ToString(req.crf), "-pix_fmt", "yuv420p",
                  "-color_primaries", "bt2020",
                  "-color_trc", "arib-std-b67",
                  "-colorspace", "bt2020nc">>)
    ELSE Libx264(req)

\* the common tail: container tag, audio, faststart, frame rate, output
CommonArgs(req, tag) ==
    Args(<<"-tag:v", tag, "-c:a", "aac", "-b:a", req.audio_bitrate,
           "-movflags", "+faststart">>)
      \o (IF req.fps # NoFps THEN Args(<<"-r", ToString(req.fps)>>)
                             ELSE <<>>)
      \o Args(<<"out_file">>)

build_ffmpeg_cmd_gpu(req) ==
    BaseCmd(req)
      \o (IF req.gpu_encoder # NoEncoder
            THEN IF req.codec = "hevc" THEN HevcGpuArgs(req)
                                       ELSE H264GpuArgs(req)
            ELSE IF req.codec = "hevc" THEN Libx265(req) ELSE Libx264(req))
      \o CommonArgs(req, IF req.codec = "hevc" THEN "hvc1" ELSE "avc1")

build_ffmpeg_cmd(req) ==
    BaseCmd(req) \o Libx265(req) \o CommonArgs(req, "hvc1")

CmdInit == cmd_req \in CmdRequests /\ cmd = <<>>

BuildGpu ==
    /\ cmd = <<>>
    /\ cmd_req.builder = "build_ffmpeg_cmd_gpu"
    /\ cmd' = build_ffmpeg_cmd_gpu(cmd_req)
    /\ UNCHANGED cmd_req
    /\ UNCHANGED notCmd

BuildCore ==
    /\ cmd = <<>>
    /\ cmd_req.builder = "build_ffmpeg_cmd"
    /\ cmd' = build_ffmpeg_cmd(cmd_req)
    /\ UNCHANGED cmd_req
    /\ UNCHANGED notCmd

CmdNext == BuildGpu \/ BuildCore

(***************************************************************************)
(* Output naming: the custom text handed to process_file by the two        *)
(* schedulers, and the base name process_file computes from it.  A string  *)
(* is the sequence of its units; ".mp4" is one unit, so that               *)
(* endswith('.mp4') looks at the last unit and strip() at blank units.     *)
(***************************************************************************)
Units == {" ", "c", ".mp4"}

Texts == UNION {[1..n -> Units] : n \in 0..MaxText}

\* str.strip()
RECURSIVE lstrip(_)
lstrip(s) == IF s # <<>> /\ Head(s) = " " THEN lstrip(Tail(s)) ELSE s

RECURSIVE rstrip(_)
rstrip(s) ==
    IF s # <<>> /\ s[Len(s)] = " " THEN rstrip(SubSeq(s, 1, Len(s) - 1))
    ELSE s

strip(s) == rstrip(lstrip(s))

\* if name.endswith('.mp4'): name = name[:-4]
WithoutMp4(s) ==
    IF s # <<>> /\ s[Len(s)] = ".mp4" THEN SubSeq(s, 1, Len(s) - 1) ELSE s

\* f"_{i+1:04d}" for the file at position n = i + 1
SequenceSuffix(n) ==
    IF n < 10 THEN "_000" \o ToString(n) ELSE "_00" \o ToString(n)

\* strftime('%Y%m%d_%H%M%S') of the second t
Stamp(t) == "second" \o ToString(t)

\* in_file.stem of the n-th discovered file
Stem(n) == "stem" \o ToString(n)

Suffixes == {<<>>, <<"_hlg_phone">>}

NameRequests ==
    [scheduler : {"sequential", "parallel"}, total : 1..MaxBatch,
     keep_original_name : BOOLEAN, custom_filename : BOOLEAN,
     custom_filename_text : Texts, add_timestamp : BOOLEAN,
     custom_suffix : Suffixes]

\* process_files_sequential: current_custom_filename_text of the n-th file
SequentialText(req, n) ==
    IF req.custom_filename /\ req.total > 1
      THEN WithoutMp4(strip(req.custom_filename_text))
             \o <<SequenceSuffix(n)>>
      ELSE req.custom_filename_text

\* process_files_parallel hands custom_filename_text on as it is
ParallelText(req, n) == req.custom_filename_text

\* process_file: the base name before timestamp and suffix
BaseOf(req, text, n, now) ==
    IF req.custom_filename /\ text # <<>> THEN WithoutMp4(strip(text))
    ELSE IF req.keep_original_name THEN <<Stem(n)>>
    ELSE <<"video_", Stamp(now)>>

\* process_file: base_name as it is when ".mp4" is appended
BaseName(req, base, now) ==
    base \o (IF req.add_timestamp THEN <<"_", Stamp(now)>> ELSE <<>>)
         \o req.custom_suffix

\* does process_file read the clock for this name
ReadsClock(req, text) ==
    \/ req.add_timestamp
    \/ ~(req.custom_filename /\ text # <<>>) /\ ~req.keep_original_name

NameInit == name_req \in NameRequests /\ resolved = <<>>

\* the seconds the next file may read: in sequence after the previous
\* file, in any order between threads
ClockReads(req, text) ==
    IF ~ReadsClock(req, text) THEN {0}
    ELSE IF req.scheduler = "sequential" /\ resolved # <<>>
      THEN resolved[Len(resolved)].now..MaxClock
    ELSE 0..MaxClock

\* process_file computes the name of the next file of the batch
Resolve(text) ==
    /\ Len(resolved) < name_req.total
    /\ \E t1 \in ClockReads(name_req, text) :
       \E t2 \in {t \in t1..MaxClock : ReadsClock(name_req, text) \/ t = t1} :
         LET n == Len(resolved) + 1
             base == BaseOf(name_req, text, n, t1)
         IN resolved' = Append(resolved,
                           [custom_filename_text |-> text, base |-> base,
                            base_name |-> BaseName(name_req, base, t2),
                            now |-> t2])
    /\ UNCHANGED name_req
    /\ UNCHANGED notName

ResolveSequential ==
    /\ name_req.scheduler = "sequential"
    /\ Resolve(SequentialText(name_req, Len(resolved) + 1))

ResolveParallel ==
    /\ name_req.scheduler = "parallel"
    /\ Resolve(ParallelText(name_req, Len(resolved) + 1))

NameNext == ResolveSequential \/ ResolveParallel

(***************************************************************************)
(* The naming check boxes of SonyToPhotoGUI: init_ui, apply_config and the *)
(* two stateChanged slots.  setChecked emits stateChanged, and so runs the *)
(* slot at once, only when the state changes and signals are not blocked.  *)
(***************************************************************************)
\* what a key of the loaded JSON can hold: nothing, a boolean, or another
\* value that is truthy or falsy
ConfigValues == {"absent", "true", "false", "truthy", "falsy"}

Present(v) == v # "absent"
Truth(v) == v \in {"true", "truthy"}
IsBool(v) == v \in {"true", "false"}

\* earlier_key_raises: a key applied before the naming keys makes its
\* setter raise, which ends apply_config
GuiConfigs ==
    [keep_original_name : ConfigValues, custom_filename : ConfigValues,
     earlier_key_raises : BOOLEAN]

\* init_ui: keep original name checked, custom file name unchecked, the
\* edit disabled
ConstructedChecks ==
    [keep_original_name_check |-> TRUE, custom_filename_check |-> FALSE,
     custom_filename_edit |-> FALSE]

on_keep_original_name_changed_leaves_other(w, checked) == w

\* slot of keep_original_name_check.stateChanged (signals of both boxes
\* blocked inside)
on_keep_original_name_changed(w, checked) ==
    IF checked
      THEN [w EXCEPT !.custom_filename_check = FALSE,
                     !.custom_filename_edit = FALSE]
    ELSE IF ~w.custom_filename_check
      THEN [w EXCEPT !.custom_filename_check = TRUE,
                     !.custom_filename_edit = TRUE]
    ELSE w

\* slot of custom_filename_check.stateChanged
on_custom_filename_changed(w, checked) ==
    IF checked
      THEN [w EXCEPT !.keep_original_name_check = FALSE,
                     !.custom_filename_edit = TRUE]
    ELSE IF ~w.keep_original_name_check
      THEN [w EXCEPT !.keep_original_name_check = TRUE,
                     !.custom_filename_edit = FALSE]
    ELSE w

\* keep_original_name_check.setChecked(value) with the slot connected
SetKeepChecked(w, value) ==
    IF w.keep_original_name_check = value THEN w
    ELSE on_keep_original_name_changed(
           [w EXCEPT !.keep_original_name_check = value], value)

\* custom_filename_check.setChecked(value) with the slot connected
SetCustomChecked(w, value) ==
    IF w.custom_filename_check = value THEN w
    ELSE on_custom_filename_changed(
           [w EXCEPT !.custom_filename_check = value], value)

SetEditEnabled(w, value) == [w EXCEPT !.custom_filename_edit = value]

\* apply_config: `if 'keep_original_name' in self.config`
ApplyKeep(w, v) ==
    LET set == SetKeepChecked(w, Truth(v))
    IN IF Truth(v) THEN SetEditEnabled(SetCustomChecked(set, FALSE), FALSE)
       ELSE set

\* apply_config: `if 'custom_filename' in self.config`
ApplyCustom(w, v) ==
    LET set == SetCustomChecked(w, Truth(v))
    IN IF Truth(v) THEN SetEditEnabled(SetKeepChecked(set, FALSE), TRUE)
       ELSE SetEditEnabled(set, FALSE)

\* apply_config: at least one of the two is checked
ApplyAtLeastOne(w) ==
    IF ~w.keep_original_name_check /\ ~w.custom_filename_check
      THEN SetEditEnabled(SetKeepChecked(w, TRUE), FALSE)
      ELSE w

\* apply_config on the naming boxes; accepts[k] tells whether setChecked
\* takes the non-boolean value of key k or raises, which ends apply_config
\* in its except clause
apply_config(w, cfg, accepts) ==
    LET k == cfg.keep_original_name
        c == cfg.custom_filename
        raisesK == Present(k) /\ ~IsBool(k) /\ ~accepts.keep_original_name
        raisesC == Present(c) /\ ~IsBool(c) /\ ~accepts.custom_filename
        w1 == IF Present(k) THEN ApplyKeep(w, k) ELSE w
        w2 == IF Present(c) THEN ApplyCustom(w1, c) ELSE w1
    IN IF cfg.earlier_key_raises \/ raisesK THEN w
       ELSE IF raisesC THEN w1
       ELSE ApplyAtLeastOne(w2)

GuiInit ==
    /\ gui_config \in GuiConfigs
    /\ checks = ConstructedChecks
    /\ gui_pc = "constructed"

\* __init__: self.apply_config()
ApplyConfig ==
    /\ gui_pc = "constructed"
    /\ \E accepts \in [keep_original_name : BOOLEAN,
                        custom_filename : BOOLEAN] :
         checks' = apply_config(checks, gui_config, accepts)
    /\ gui_pc' = "ready"
    /\ UNCHANGED gui_config
    /\ UNCHANGED notGui

\* the user clicks the keep-original-name box
ToggleKeepOriginalName ==
    /\ gui_pc = "ready"
    /\ checks' = SetKeepChecked(checks, ~checks.keep_original_name_check)
    /\ UNCHANGED <<gui_config, gui_pc>>
    /\ UNCHANGED notGui

\* the user clicks the custom-file-name box
ToggleCustomFilename ==
    /\ gui_pc = "ready"
    /\ checks' = SetCustomChecked(checks, ~checks.custom_filename_check)
    /\ UNCHANGED <<gui_config, gui_pc>>
    /\ UNCHANGED notGui

GuiNext == ApplyConfig \/ ToggleKeepOriginalName \/ ToggleCustomFilename

(***************************************************************************)
(* main of transcode_core.py: validation, discovery, the batch in either   *)
(* mode, the exit code.  A discovered file is what process_file returns    *)
(* for it and whether its name contains the text SKIP.                     *)
(***************************************************************************)
FoundFile ==
    [outcome : {"ok", "failed", "error", "skipped"}, skipInName : BOOLEAN]

\* the message of process_file: "SKIP (exists): ...", "OK: <name>",
\* "FAILED: <name> ...", "ERROR: <name> - ..."
FoundMessageHasSKIP(f) == f.outcome = "skipped" \/ f.skipInName

FoundSuccess(f) == f.outcome \in {"ok", "skipped"}

\* if "SKIP" in message / elif success / else
FoundCounterOf(f) ==
    IF FoundMessageHasSKIP(f) THEN "skipped"
    ELSE IF FoundSuccess(f) THEN "ok"
    ELSE "fail"

CrfArgs == {0 - 1, 0, 51, 52}

ValidCrfNoUpperLimit(crf) == 0 <= crf

\* if not (0 <= args.crf <= 51)
ValidCrf(crf) == 0 <= crf /\ crf <= 51

\* allow_missing: --test or --dry-run; then run() starts no process and
\* returns 0, so no file ends as failed
MainArgs ==
    {a \in [crf : CrfArgs, input_exists : BOOLEAN, mkdir_ok : BOOLEAN,
            ffmpeg_runs : BOOLEAN, allow_missing : BOOLEAN,
            threads : 1..2,
            files : UNION {[1..n -> FoundFile] : n \in 0..MaxFound}] :
       a.allow_missing =>
         \A k \in 1..Len(a.files) : a.files[k].outcome # "failed"}

MainBegin ==
    [pc |-> "crf", done |-> {}, ok |-> 0, fail |-> 0, skipped |-> 0,
     rc |-> 0 - 1, version_checks |-> 0, transcodes |-> 0]

MainInit == main_args \in MainArgs /\ main = MainBegin

\* return rc
MainExit(rc) == main' = [main EXCEPT !.pc = "returned", !.rc = rc]

MainGoto(pc) == main' = [main EXCEPT !.pc = pc]

\* Validate CRF value
MainCheckCrf ==
    /\ main.pc = "crf"
    /\ IF ValidCrf(main_args.crf) THEN MainGoto("input") ELSE MainExit(1)
    /\ UNCHANGED main_args
    /\ UNCHANGED notMain

\* Validate input path exists
MainCheckInput ==
    /\ main.pc = "input"
    /\ IF main_args.input_exists THEN MainGoto("mkdir") ELSE MainExit(1)
    /\ UNCHANGED main_args
    /\ UNCHANGED notMain

\* Create output directory if it doesn't exist
MainMkdir ==
    /\ main.pc = "mkdir"
    /\ IF main_args.mkdir_ok THEN MainGoto("ffmpeg") ELSE MainExit(1)
    /\ UNCHANGED main_args
    /\ UNCHANGED notMain

\* which_ffmpeg(allow_missing=args.test or args.dry_run): runs
\* `ffmpeg -version` unless allow_missing
MainWhichFfmpeg ==
    /\ main.pc = "ffmpeg"
    /\ IF main_args.allow_missing THEN MainGoto("discover")
       ELSE IF main_args.ffmpeg_runs
         THEN main' = [main EXCEPT !.pc = "discover",
                                   !.version_checks = @ + 1]
         ELSE main' = [main EXCEPT !.pc = "returned", !.rc = 1,
                                   !.version_checks = @ + 1]
    /\ UNCHANGED main_args
    /\ UNCHANGED notMain

\* files = list(iter_video_files(...)); if not files: return 2
MainDiscover ==
    /\ main.pc = "discover"
    /\ IF main_args.files = <<>> THEN MainExit(2) ELSE MainGoto("batch")
    /\ UNCHANGED main_args
    /\ UNCHANGED notMain

\* the files whose turn it can be: the next of the list in the loop of
\* main, any started thread's file under process_files_parallel
MainTurns ==
    LET todo == (1..Len(main_args.files)) \ main.done
    IN IF main_args.threads > 1 THEN todo
       ELSE {k \in todo : \A j \in todo : k <= j}

\* process_file for one file and the update of the counters
MainProcessFile ==
    /\ main.pc = "batch"
    /\ \E k \in MainTurns :
         LET f == main_args.files[k]
             c == FoundCounterOf(f)
         IN main' = [main EXCEPT
                       !.done = @ \cup {k},
                       !.ok = IF c = "ok" THEN @ + 1 ELSE @,
                       !.fail = IF c = "fail" THEN @ + 1 ELSE @,
                       !.skipped = IF c = "skipped" THEN @ + 1 ELSE @,
                       !.transcodes =
                          IF f.outcome \in {"ok", "failed"}
                               /\ ~main_args.allow_missing
                            THEN @ + 1 ELSE @]
    /\ UNCHANGED main_args
    /\ UNCHANGED notMain

\* return 0 if fail == 0 else 1
MainReturn ==
    /\ main.pc = "batch"
    /\ main.done = 1..Len(main_args.files)
    /\ MainExit(IF main.fail = 0 THEN 0 ELSE 1)
    /\ UNCHANGED main_args
    /\ UNCHANGED notMain

MainNext ==
    \/ MainCheckCrf
    \/ MainCheckInput
    \/ MainMkdir
    \/ MainWhichFfmpeg
    \/ MainDiscover
    \/ MainProcessFile
    \/ MainReturn

(***************************************************************************)
(* detect_gpu_encoders of sonyToPhoto.py and the `ffmpeg -encoders` run it *)
(* makes.                                                                  *)
(***************************************************************************)
\* every encoder name the two tables of encoder_mappings know
KnownEncoders == UNION {encoder_mappings(c) : c \in Codecs}

\* what subprocess.run([ffmpeg_path, "-encoders"], capture_output=True,
\* text=True) meets:
\*   "oserror"  the binary is missing or cannot be executed: run raises
\*   "exited"   the process exited with returncode; stdout is the set of
\*              known encoder names its output contains
\*   "hangs"    the process never exits: run is called without a timeout
\*              and waits
EncoderRuns ==
    {[outcome |-> "oserror", returncode |-> 0, stdout |-> {}],
     [outcome |-> "hangs", returncode |-> 0, stdout |-> {}]}
      \cup [outcome : {"exited"}, returncode : 0..MaxExit,
            stdout : SUBSET KnownEncoders]

DetectRequests == [codec : Codecs, run : EncoderRuns]

\* encoder_mappings.items(): the keys in the order of the dict
encoder_mappings_items(codec) ==
    IF codec = "hevc"
      THEN <<"h265_nvenc", "hevc_amf", "hevc_qsv", "hevc_videotoolbox">>
      ELSE <<"h264_nvenc", "h264_amf", "h264_qsv", "h264_videotoolbox">>

\* the body of detect_gpu_encoders once subprocess.run is over: the keys of
\* the list it returns; returncode is not read
available_encoders(req) ==
    IF req.run.outcome = "oserror"
      THEN <<>>
      ELSE LET InOutput(encoder_key) == encoder_key \in req.run.stdout
           IN  SelectSeq(encoder_mappings_items(req.codec), InOutput)

DetectBegin == [pc |-> "idle", result |-> <<>>]

DetectInit ==
    /\ det_req \in DetectRequests
    /\ det = DetectBegin

\* detect_gpu_encoders is called and starts the process
DetectCall ==
    /\ det.pc = "idle"
    /\ det' = [det EXCEPT !.pc = "run"]
    /\ UNCHANGED det_req
    /\ UNCHANGED notDetect

\* subprocess.run returns or raises, and detect_gpu_encoders returns
DetectReturn ==
    /\ det.pc = "run"
    /\ det_req.run.outcome # "hangs"
    /\ det' = [pc |-> "returned", result |-> available_encoders(det_req)]
    /\ UNCHANGED det_req
    /\ UNCHANGED notDetect

DetectNext ==
    \/ DetectCall
    \/ DetectReturn

(***************************************************************************)
(* iter_video_files of transcode_core.py over a small file system. A name  *)
(* is a sequence of pieces, "." being the dot; an entry of the directory   *)
(* tree under input_path has a depth (0: in input_path itself, 1: in a     *)
(* subdirectory, 2: one level deeper), a name and a kind.                  *)
(***************************************************************************)
FileNames ==
    {<<"a", ".", "mov">>, <<"b", ".", "MP4">>, <<"c", ".", "txt">>,
     <<"d", ".", "mxf">>, <<"e", ".", "M4v">>, <<"f">>, <<".", "mp4">>,
     <<"g", ".", "mp4", ".", "txt">>, <<"h", ".", "txt", ".", "mp4">>}

Depths == {0, 1, 2}

Entries == [depth : Depths, name : FileNames, kind : {"file", "dir"}]

\* the sets of at most n entries
RECURSIVE Trees(_)
Trees(n) ==
    IF n = 0 THEN {{}}
    ELSE LET smaller == Trees(n - 1)
         IN  smaller \cup {t \cup {e} : t \in smaller, e \in Entries}

IterRequests ==
    [root : {"dir"}, root_name : {<<"f">>}, tree : Trees(MaxEntries),
     recursive : BOOLEAN]
      \cup [root : {"file"}, root_name : FileNames, tree : {{}},
            recursive : BOOLEAN]

\* VIDEO_EXTS
VIDEO_EXTS ==
    {<<".", "mov">>, <<".", "mp4">>, <<".", "mxf">>, <<".", "m4v">>}

\* PurePath.suffix: the name from its last dot on, when that dot is neither
\* the first nor the last character of the name
suffix(name) ==
    LET dots == {i \in 1..Len(name) : name[i] = "."}
    IN  IF dots = {} THEN <<>>
        ELSE LET i == CHOOSE i \in dots : \A j \in dots : j <= i
             IN  IF 1 < i /\ i < Len(name)
                   THEN SubSeq(name, i, Len(name))
                   ELSE <<>>

\* str.lower()
lower(s) ==
    [k \in 1..Len(s) |->
       CASE s[k] = "MP4" -> "mp4"
         [] s[k] = "M4v" -> "m4v"
         [] OTHER -> s[k]]

\* `suffix in VIDEO_EXTS`, without lower()
IsVideoCaseSensitive(name) == suffix(name) \in VIDEO_EXTS

\* `p.suffix.lower() in VIDEO_EXTS`
IsVideo(name) == lower(suffix(name)) \in VIDEO_EXTS

\* input_path.glob(pattern): "*" gives the entries of input_path itself,
\* "**/*" those of every directory below it as well
Glob(req) ==
    LET pattern == IF req.recursive THEN "**/*" ELSE "*"
    IN  {e \in req.tree : pattern = "**/*" \/ e.depth = 0}

\* input_path, as an entry
RootEntry(req) == [depth |-> 0, name |-> req.root_name, kind |-> "file"]

IterBegin == [pc |-> "idle", pending |-> {}, yielded |-> {}]

IterInit ==
    /\ iter_req \in IterRequests
    /\ iter = IterBegin

\* the generator runs up to the loop: the branch of input_path.is_file()
IterEnter ==
    /\ iter.pc = "idle"
    /\ iter' = IF iter_req.root = "file"
                 THEN [pc |-> "returned", pending |-> {},
                       yielded |-> IF IsVideo(iter_req.root_name)
                                     THEN {RootEntry(iter_req)} ELSE {}]
                 ELSE [pc |-> "glob", pending |-> Glob(iter_req),
                       yielded |-> {}]
    /\ UNCHANGED iter_req
    /\ UNCHANGED notIter

\* one turn of `for p in input_path.glob(pattern)`, in the order the file
\* system gives
IterGlobNext ==
    /\ iter.pc = "glob"
    /\ \E p \in iter.pending :
         iter' = [iter EXCEPT
                    !.pending = @ \ {p},
                    !.yielded = IF p.kind = "file" /\ IsVideo(p.name)
                                  THEN @ \cup {p} ELSE @]
    /\ UNCHANGED iter_req
    /\ UNCHANGED notIter

\* the loop is over
IterReturn ==
    /\ iter.pc = "glob"
    /\ iter.pending = {}
    /\ iter' = [iter EXCEPT !.pc = "returned"]
    /\ UNCHANGED iter_req
    /\ UNCHANGED notIter

IterNext ==
    \/ IterEnter
    \/ IterGlobNext
    \/ IterReturn

(***************************************************************************)
(* TranscodeWorker.run of sonyToPhoto.py: the checks before the batch, the *)
(* batch, and the handler of the enclosing try. What the run meets:        *)
(*   input_exists  whether input_path exists                               *)
(*   mkdir         outcome of output_dir.mkdir                             *)
(*   which_ffmpeg  outcome of which_ffmpeg(allow_missing=False)            *)
(*   files         what iter_video_files finds                             *)
(*   raises        where an exception none of the inner handlers catches   *)
(*                 is raised: resolving the input path, reading            *)
(*                 self.params, listing the files, or inside               *)
(*                 process_files_sequential                                *)
(***************************************************************************)
RunRequests ==
    [input_exists : BOOLEAN,
     mkdir : {"ok", "PermissionError", "Exception"},
     which_ffmpeg : {"ok", "RuntimeError"},
     files : {<<>>} \cup SeqsUpTo(File, MaxRunFiles),
     raises : {"none", "resolve", "params", "iter", "batch"}]

\* the number of files process_files_sequential, called with a
\* file_progress_callback, adds to the counter c
RECURSIVE Counted(_, _)
Counted(fs, c) ==
    IF fs = <<>> THEN 0
    ELSE (IF CounterOf(Head(fs)) = c THEN 1 ELSE 0) + Counted(Tail(fs), c)

\* ok, fail, skipped = process_files_sequential(...)
SequentialCounts(fs) ==
    <<Counted(fs, "ok"), Counted(fs, "fail"), Counted(fs, "skipped")>>

RunBegin == [pc |-> "input", emitted |-> <<>>]

\* self.finished.emit(ok, fail, skipped) as the last statement: run returns
EmitAndReturn(r, counts) ==
    [pc |-> "returned", emitted |-> Append(r.emitted, counts)]

\* the handler, without its self.finished.emit
ExceptHandlerSilent(r) == [r EXCEPT !.pc = "returned"]

\* except Exception as e: ...; self.finished.emit(0, 1, 0)
ExceptHandler(r) == EmitAndReturn(r, <<0, 1, 0>>)

RunInit ==
    /\ run_req \in RunRequests
    /\ run = RunBegin

\* input_path = Path(...).expanduser().resolve(); if not input_path.exists()
RunValidateInput ==
    /\ run.pc = "input"
    /\ run' = IF run_req.raises = "resolve"
                THEN [run EXCEPT !.pc = "except"]
              ELSE IF ~run_req.input_exists
                THEN EmitAndReturn(run, <<0, 1, 0>>)
              ELSE [run EXCEPT !.pc = "mkdir"]
    /\ UNCHANGED run_req
    /\ UNCHANGED notRun

\* output_dir.mkdir(parents=True, exist_ok=True) and its two handlers
RunMkdir ==
    /\ run.pc = "mkdir"
    /\ run' = IF run_req.mkdir # "ok"
                THEN EmitAndReturn(run, <<0, 1, 0>>)
                ELSE [run EXCEPT !.pc = "ffmpeg"]
    /\ UNCHANGED run_req
    /\ UNCHANGED notRun

\* ffmpeg = which_ffmpeg(allow_missing=False) and its handler
RunWhichFfmpeg ==
    /\ run.pc = "ffmpeg"
    /\ run' = IF run_req.which_ffmpeg = "RuntimeError"
                THEN EmitAndReturn(run, <<0, 1, 0>>)
                ELSE [run EXCEPT !.pc = "collect"]
    /\ UNCHANGED run_req
    /\ UNCHANGED notRun

\* fps = ...; files = list(iter_video_files(...)); if not files
RunCollect ==
    /\ run.pc = "collect"
    /\ run' = IF run_req.raises \in {"params", "iter"}
                THEN [run EXCEPT !.pc = "except"]
              ELSE IF run_req.files = <<>>
                THEN EmitAndReturn(run, <<0, 0, 0>>)
              ELSE [run EXCEPT !.pc = "batch"]
    /\ UNCHANGED run_req
    /\ UNCHANGED notRun

\* ok, fail, skipped = process_files_sequential(...);
\* self.finished.emit(ok, fail, skipped)
RunBatch ==
    /\ run.pc = "batch"
    /\ run' = IF run_req.raises = "batch"
                THEN [run EXCEPT !.pc = "except"]
                ELSE EmitAndReturn(run, SequentialCounts(run_req.files))
    /\ UNCHANGED run_req
    /\ UNCHANGED notRun

\* the handler of the enclosing try
RunExcept ==
    /\ run.pc = "except"
    /\ run' = ExceptHandler(run)
    /\ UNCHANGED run_req
    /\ UNCHANGED notRun

RunWorkerNext ==
    \/ RunValidateInput
    \/ RunMkdir
    \/ RunWhichFfmpeg
    \/ RunCollect
    \/ RunBatch
    \/ RunExcept

(***************************************************************************)
(* Specifications: one per component, the others at rest.                  *)
(***************************************************************************)
\* TranscodeWorker.run not started
RunIdle ==
    /\ run_req = [input_exists |-> FALSE, mkdir |-> "ok",
                  which_ffmpeg |-> "ok", files |-> <<>>, raises |-> "none"]
    /\ run = RunBegin

\* iter_video_files not called
IterIdle ==
    /\ iter_req = [root |-> "dir", root_name |-> <<"f">>, tree |-> {},
                   recursive |-> FALSE]
    /\ iter = IterBegin

\* detect_gpu_encoders not called
DetectIdle ==
    /\ det_req = [codec |-> "hevc",
                  run |-> [outcome |-> "oserror", returncode |-> 0,
                           stdout |-> {}]]
    /\ det = DetectBegin

\* main not run
MainIdle ==
    /\ main_args = [crf |-> 0, input_exists |-> FALSE, mkdir_ok |-> FALSE,
                    ffmpeg_runs |-> FALSE, allow_missing |-> FALSE,
                    threads |-> 1, files |-> <<>>]
    /\ main = MainBegin

\* the window with an empty configuration, not used
GuiIdle ==
    /\ gui_config = [keep_original_name |-> "absent",
                     custom_filename |-> "absent",
                     earlier_key_raises |-> FALSE]
    /\ checks = ConstructedChecks
    /\ gui_pc = "constructed"

\* no batch being named
NameIdle ==
    /\ name_req = [scheduler |-> "sequential", total |-> 1,
                   keep_original_name |-> TRUE, custom_filename |-> FALSE,
                   custom_filename_text |-> <<>>, add_timestamp |-> FALSE,
                   custom_suffix |-> <<"_hlg_phone">>]
    /\ resolved = <<>>

\* no command built
CmdIdle ==
    /\ cmd_req = [builder |-> "build_ffmpeg_cmd", codec |-> "hevc",
                  gpu_encoder |-> NoEncoder, overwrite |-> FALSE,
                  crf |-> 18, preset |-> "medium", fps |-> NoFps,
                  audio_bitrate |-> "192k"]
    /\ cmd = <<>>

ParIdle ==
    /\ files = <<>> /\ max_threads = 1
    /\ ok = 0 /\ fail = 0 /\ skipped = 0 /\ counters = 0
    /\ threads = <<>> /\ tstate = <<>> /\ treg = <<>>
    /\ par_pc = "idle" /\ par_i = 1 /\ par_scan = 0

SeqIdle ==
    /\ seq_files = <<>> /\ seq_file_cb = FALSE /\ seq_prog_cb = FALSE
    /\ seq_i = 0 /\ seq_ok = 0 /\ seq_fail = 0 /\ seq_skipped = 0
    /\ seq_progress = <<0, 0>> /\ seq_log = <<>> /\ seq_pc = "idle"

\* process_file not called
PfIdle ==
    /\ pf_req = CHOOSE r \in Requests : r.gpu_encoder = NoEncoder
    /\ pf = PfIdleState
    /\ pf_prev = "none" /\ disk = {} /\ clock = 0 /\ config = NoConfig

ParStart ==
    ParInit /\ SeqIdle /\ QueueInit /\ PfIdle
      /\ CmdIdle /\ NameIdle /\ GuiIdle /\ MainIdle /\ DetectIdle /\ IterIdle /\ RunIdle

ParSpec == ParStart /\ [][ParNext]_vars

SeqStart ==
    SeqInit /\ ParIdle /\ QueueInit /\ PfIdle
      /\ CmdIdle /\ NameIdle /\ GuiIdle /\ MainIdle /\ DetectIdle /\ IterIdle /\ RunIdle

SeqSpec == SeqStart /\ [][SeqNext]_vars

QueueStart ==
    QueueInit /\ ParIdle /\ SeqIdle /\ PfIdle
      /\ CmdIdle /\ NameIdle /\ GuiIdle /\ MainIdle /\ DetectIdle /\ IterIdle /\ RunIdle

QueueSpec == QueueStart /\ [][QueueNext]_vars

PfStart ==
    PfInit /\ ParIdle /\ SeqIdle /\ QueueInit
      /\ CmdIdle /\ NameIdle /\ GuiIdle /\ MainIdle /\ DetectIdle /\ IterIdle /\ RunIdle

PfSpec == PfStart /\ [][PfNext]_vars

CmdStart ==
    CmdInit /\ ParIdle /\ SeqIdle /\ QueueInit
      /\ PfIdle /\ NameIdle /\ GuiIdle /\ MainIdle /\ DetectIdle /\ IterIdle /\ RunIdle

CmdSpec == CmdStart /\ [][CmdNext]_vars

NameStart ==
    NameInit /\ ParIdle /\ SeqIdle /\ QueueInit
      /\ PfIdle /\ CmdIdle /\ GuiIdle /\ MainIdle /\ DetectIdle /\ IterIdle /\ RunIdle

NameSpec == NameStart /\ [][NameNext]_vars

GuiStart ==
    GuiInit /\ ParIdle /\ SeqIdle /\ QueueInit
      /\ PfIdle /\ CmdIdle /\ NameIdle /\ MainIdle /\ DetectIdle /\ IterIdle /\ RunIdle

GuiSpec == GuiStart /\ [][GuiNext]_vars

MainStart ==
    MainInit /\ ParIdle /\ SeqIdle /\ QueueInit
      /\ PfIdle /\ CmdIdle /\ NameIdle /\ GuiIdle /\ DetectIdle /\ IterIdle /\ RunIdle

MainSpec == MainStart /\ [][MainNext]_vars

DetectStart ==
    DetectInit /\ ParIdle /\ SeqIdle /\ QueueInit
      /\ PfIdle /\ CmdIdle /\ NameIdle /\ GuiIdle /\ MainIdle /\ IterIdle /\ RunIdle

DetectSpec == DetectStart /\ [][DetectNext]_vars

IterStart ==
    IterInit /\ ParIdle /\ SeqIdle /\ QueueInit
      /\ PfIdle /\ CmdIdle /\ NameIdle /\ GuiIdle /\ MainIdle /\ DetectIdle /\ RunIdle

IterSpec == IterStart /\ [][IterNext]_vars

RunStart ==
    RunInit /\ ParIdle /\ SeqIdle /\ QueueInit
      /\ PfIdle /\ CmdIdle /\ NameIdle /\ GuiIdle /\ MainIdle /\ DetectIdle /\ IterIdle

RunSpec == RunStart /\ [][RunWorkerNext]_vars

\* The queue with a current worker whose thread is scheduled: the loop of
\* run() that is allowed to end ends.
FairQueueSpec == QueueSpec /\ SF_vars(WorkerPollExit(CurHandle))

\* A run of the queue in which the user never stops the queue and never
\* uses a row's remove button.
RunNext ==
    \/ AddTask
    \/ RemoveSelected
    \/ ClearQueue
    \/ StartQueue
    \/ PauseResume
    \/ DeliverFinished
    \/ WorkerPopen(CurHandle)
    \/ WorkerPollExit(CurHandle)
    \/ WorkerObserve(CurHandle)
    \/ WorkerEmit(CurHandle)
    \/ WorkerReturn(CurHandle)

\* the click that resumes a paused queue
Resume == is_paused /\ PauseResume

\* Every pause is followed by a resume, the worker thread and the child
\* process make progress, every worker emits finished in the end, and the
\* event loop delivers every signal.
FairRunSpec ==
    /\ QueueStart
    /\ [][RunNext]_vars
    /\ WF_vars(Resume)
    /\ WF_vars(DeliverFinished)
    /\ WF_vars(WorkerPopen(CurHandle))
    /\ SF_vars(WorkerPollExit(CurHandle))
    /\ WF_vars(WorkerObserve(CurHandle))
    /\ SF_vars(WorkerEmit(CurHandle))
    /\ WF_vars(WorkerReturn(CurHandle))

(***************************************************************************)
(* Claims about process_files_parallel.                                    *)
(***************************************************************************)

\* C1: at every moment at most max_threads worker threads started by the
\* run are alive.
C1_AtMostMaxThreadsAlive ==
    par_pc # "idle" => Cardinality(AliveThreads) <= max_threads

CountOf(fs, c) == Cardinality({k \in 1..Len(fs) : CounterOf(fs[k]) = c})

\* C2: when process_files_parallel returns, every worker has finished and
\* ok + fail + skipped = N, every file counted once in one counter.
C2_ParallelCountsExact ==
    par_pc = "returned" =>
        /\ \A t \in 1..NFiles : tstate[t] = "dead"
        /\ ok + fail + skipped = NFiles
        /\ ok = CountOf(files, "ok")
        /\ fail = CountOf(files, "fail")
        /\ skipped = CountOf(files, "skipped")

\* C2 witness: a run of three files under a limit of two has returned,
\* with a file in each counter.
C2_Witness ==
    /\ par_pc = "returned"
    /\ NFiles = 3 /\ max_threads = 2
    /\ ok = 1 /\ fail = 1 /\ skipped = 1

(***************************************************************************)
(* Claims about process_files_sequential.                                  *)
(***************************************************************************)

\* C3: whichever callbacks are supplied, process_files_sequential returns
\* counts with ok + fail + skipped = N.
C3_SequentialCountsSumToN ==
    seq_pc = "returned" => seq_ok + seq_fail + seq_skipped = Len(seq_files)

\* the positions of the log holding event ev of file k
At(ev, k) == {p \in 1..Len(seq_log) : seq_log[p] = Event(ev, k)}

\* the positions holding a final status of file k
FinalAt(k) == At("done", k) \cup At("failed", k) \cup At("skipped", k)

Before(P, Q) == \A p \in P : \A q \in Q : p < q

IsProgress(e) == e.ev = "progress"

\* C25: in sequential mode process_file is called for the files one at a
\* time in discovery order, file k+1 only after file k returned and its
\* final status was reported, and the progress callback is called once
\* after each file with (1, N), (2, N), ... in increasing order.
C25_SequentialInOrder ==
    /\ \A k \in 1..seq_i :
          /\ Cardinality(At("call", k)) = 1
          /\ Cardinality(At("return", k)) = 1
          /\ Before(At("call", k), At("return", k))
          /\ seq_file_cb => FinalAt(k) # {}
          /\ \A j \in 1..seq_i :
                j > k => /\ Before(At("return", k), At("call", j))
                         /\ Before(FinalAt(k), At("call", j))
    /\ \A k \in (seq_i + 1)..Len(seq_files) : At("call", k) = {}
    /\ seq_prog_cb =>
          /\ SelectSeq(seq_log, IsProgress)
                = [k \in 1..seq_i |-> Event("progress", k)]
          /\ \A k \in 1..seq_i :
                /\ Before(At("return", k), At("progress", k))
                /\ Before(FinalAt(k), At("progress", k))
                /\ \A j \in 1..seq_i :
                      j > k => Before(At("progress", k), At("call", j))

\* C25 witness: three files processed with both callbacks, the last
\* progress call being (3, 3).
C25_Witness ==
    /\ seq_file_cb /\ seq_prog_cb
    /\ Len(seq_files) = 3
    /\ seq_i = 3
    /\ seq_progress = <<3, 3>>
    /\ seq_log[Len(seq_log)] = Event("progress", 3)

\* the status notification that stands for an outcome of process_file
StatusFor(outcome) == IF outcome = "ok" THEN "done" ELSE outcome

\* C26: in sequential mode each processed file gets exactly one
\* "processing" notification and after it exactly one final notification,
\* which is done, failed or skipped according to the file's outcome.
C26_ProcessingThenMatchingFinal ==
    seq_file_cb =>
        \A k \in 1..seq_i :
            /\ Cardinality(At("processing", k)) = 1
            /\ Cardinality(FinalAt(k)) = 1
            /\ Before(At("processing", k), FinalAt(k))
            /\ At(StatusFor(seq_files[k].outcome), k) # {}

(***************************************************************************)
(* Claims about the task queue.                                            *)
(***************************************************************************)

\* C4: after stop_task_queue returns, no external process started by the
\* stopped worker is still running.
C4_StopKillsProcess ==
    [][StopQueue => ~ProcRunning(current_queue_worker')]_vars

StatusOf(q, id) == LET k == CHOOSE k \in 1..Len(q) : q[k].id = id IN q[k].status

TaskIds(q) == {q[k].id : k \in 1..Len(q)}

\* C5: stop_task_queue sets every task that has not started (status
\* waiting) to stopped, and leaves the done or failed status of every task
\* before the current index as it is.
C5_StopMarksRemaining ==
    [][StopQueue =>
         \A k \in 1..Len(task_queue) :
           /\ task_queue[k].status = "waiting"
                => task_queue'[k].status = "stopped"
           /\ (k - 1 < current_task_index
                 /\ task_queue[k].status \in {"done", "failed"})
                => task_queue'[k].status = task_queue[k].status]_vars

\* C6: while is_queue_running is true no step removes a task from
\* task_queue.
C6_NoRemovalWhileRunning ==
    [][is_queue_running => TaskIds(task_queue) \subseteq TaskIds(task_queue')]_vars

\* the worker threads that are in the work of a task
WorkingCount ==
    (IF Working(current_queue_worker) THEN 1 ELSE 0)
      + BagCardinality(detached)
      - CopiesIn([task |-> 0, pc |-> "orphaned", is_paused |-> FALSE], detached)

\* C7: at most one queue worker is at work and at most one task has status
\* running or paused.
C7_OneTaskAtATime ==
    /\ WorkingCount <= 1
    /\ Cardinality({k \in 1..Len(task_queue) :
                      task_queue[k].status \in {"running", "paused"}}) <= 1

Exhausted ==
    /\ ~is_queue_running
    /\ \A k \in 1..Len(task_queue) : task_queue[k].status \in {"done", "failed"}

\* C8: once the queue is started, and with no stop, every pause resumed and
\* every worker emitting finished, the queue is eventually exhausted: every
\* task done or failed and is_queue_running false.
C8_QueueEventuallyExhausted == is_queue_running ~> Exhausted

Transitions ==
    {<<"waiting", "running">>, <<"running", "done">>, <<"running", "failed">>,
     <<"running", "paused">>, <<"paused", "running">>,
     <<"running", "stopped">>, <<"waiting", "stopped">>}

\* C9: every change of a task's status is one of waiting->running,
\* running->done, running->failed, running->paused, paused->running,
\* running->stopped, waiting->stopped.
C9_StatusStateMachine ==
    [][\A id \in TaskIds(task_queue) \cap TaskIds(task_queue') :
         \/ StatusOf(task_queue', id) = StatusOf(task_queue, id)
         \/ <<StatusOf(task_queue, id), StatusOf(task_queue', id)>>
              \in Transitions]_vars

\* C10: when the queue runs and is not paused, as it is after a resume, an
\* invocation of the current worker that is in flight at the pause loop of
\* run() eventually goes on to the observation of its outcome, unless the
\* queue is paused again first.
C10_ResumedInvocationObserved ==
    (is_queue_running /\ ~is_paused /\ current_queue_worker.pc = "polling")
      ~> (current_queue_worker.pc # "polling" \/ is_paused)

\* C30: stop_task_queue leaves the task in flight and every task after it
\* with status stopped, and no finished signal delivered afterwards turns a
\* stopped task into failed or done.
C30_StoppedNotOverwritten ==
    [][/\ StopQueue =>
            \A k \in 1..Len(task_queue) :
               k - 1 >= current_task_index
                 => task_queue'[k].status = "stopped"
       /\ DeliverFinished =>
            \A id \in TaskIds(task_queue) \cap TaskIds(task_queue') :
               StatusOf(task_queue, id) = "stopped"
                 => StatusOf(task_queue', id) \notin {"done", "failed"}]_vars

\* C11: no worker observes the completion of its in-flight external process
\* (p.communicate() returning) at a moment at which its pause flag is true.
C11_NoObservationWhilePaused ==
    [][\A h \in Handles : WorkerObserve(h) => ~h.w.is_paused]_vars

(***************************************************************************)
(* Claims about process_file.                                              *)
(***************************************************************************)
IsHardware(e) == e # NoEncoder

\* the hardware encoders of the list built by the call, in its order
HwCandidates == SelectSeq(pf.candidates, IsHardware)

\* the hardware encoders invoked so far by the call, in order
HwTried ==
    LET hw == SelectSeq(pf.tried, LAMBDA a : IsHardware(a.encoder))
    IN  [k \in 1..Len(hw) |-> hw[k].encoder]

IsPrefix(a, b) == Len(a) <= Len(b) /\ \A k \in 1..Len(a) : a[k] = b[k]

BrandRank(e) ==
    CASE encoder_name_map(e) = "NVIDIA" -> 1
      [] encoder_name_map(e) = "Intel" -> 2
      [] encoder_name_map(e) = "AMD" -> 3
      [] OTHER -> 4

\* the list starts with the requested encoder if it was detected, goes on
\* with other encoders in the order NVIDIA, Intel, AMD, has no encoder
\* twice, and the encoders invoked are its first ones, in its order
OrderedCandidates ==
    LET c == HwCandidates
        first == IF pf_req.gpu_encoder \in pf_req.encoders_output THEN 1 ELSE 0
    IN  /\ first = 1 => c[1] = pf_req.gpu_encoder
        /\ \A i, j \in (first + 1)..Len(c) :
              i < j => BrandRank(c[i]) < BrandRank(c[j])
        /\ \A i, j \in 1..Len(c) : i # j => c[i] # c[j]
        /\ IsPrefix(HwTried, c)

Probed == pf_req.probe = "ok" /\ pf.candidates # <<>>

HwSuccesses ==
    {k \in 1..Len(pf.tried) :
        IsHardware(pf.tried[k].encoder) /\ pf.tried[k].rc = 0}

\* C13: when the invocation of a hardware encoder exits 0, process_file
\* returns at once with success: plain ok if that encoder is the requested
\* one, else ok-fallback naming the brand of the encoder used.
C13_HardwareSuccessReturns ==
    \A k \in HwSuccesses :
        LET e == pf.tried[k].encoder IN
        /\ k = Len(pf.tried)
        /\ pf.pc = "returned"
        /\ pf.result.success
        /\ e = pf_req.gpu_encoder => Kind(pf.result) = "ok"
        /\ e # pf_req.gpu_encoder =>
              /\ Kind(pf.result) = "ok-fallback"
              /\ pf.result.brand = encoder_name_map(e)
              /\ pf.result.brand \in {"NVIDIA", "Intel", "AMD"}

\* C13 witness: NVENC was requested but not detected; the Intel encoder was
\* used and the call returned ok-fallback naming Intel.
C13_Witness ==
    /\ pf.pc = "returned"
    /\ pf_req.gpu_encoder = "h265_nvenc"
    /\ "h265_nvenc" \notin pf_req.encoders_output
    /\ HwSuccesses # {}
    /\ Kind(pf.result) = "ok-fallback"
    /\ pf.result.brand = "Intel"

\* a hardware encoder is requested and probing finds none
NoneAvailable ==
    /\ pf_req.gpu_encoder # NoEncoder
    /\ pf_req.probe = "ok"
    /\ pf_req.encoders_output = {}

\* the call has gone past the skip test and returned
RanAndReturned == pf.pc = "returned" /\ pf.result # Skip

\* C14: with a hardware encoder requested and none available, process_file
\* runs the CPU command exactly once; exit 0 gives ok-fallback (CPU), a
\* non-zero exit gives failed with that exit code.
C14_NoHardwareCpuOnce ==
    NoneAvailable =>
        /\ HwTried = <<>>
        /\ Len(pf.tried) <= 1
        /\ RanAndReturned =>
              /\ Len(pf.tried) = 1
              /\ pf.tried[1].encoder = NoEncoder
              /\ pf.tried[1].rc = 0 =>
                    /\ Kind(pf.result) = "ok-fallback"
                    /\ pf.result.tag = "OK (CPU fallback)"
              /\ pf.tried[1].rc > 0 =>
                    /\ Kind(pf.result) = "failed"
                    /\ pf.result.rc = pf.tried[1].rc

\* C14 witness: no encoder available, the CPU command exited 0 and the call
\* returned ok-fallback (CPU).
C14_Witness ==
    /\ NoneAvailable
    /\ RanAndReturned
    /\ pf.tried = <<Attempt(pf_req, NoEncoder, 0)>>
    /\ pf.result = OkCpuFallback

\* C15: process_file returns failed only after every hardware encoder of
\* its list and then the CPU command exited non-zero, with the exit code of
\* the CPU command; if any invocation exits 0 the call returns a success.
C15_FailedOnlyAfterWholeChain ==
    pf.pc = "returned" =>
        /\ Kind(pf.result) = "failed" =>
              /\ pf.tried # <<>>
              /\ \A k \in 1..Len(pf.tried) : pf.tried[k].rc > 0
              /\ HwTried = HwCandidates
              /\ pf.tried[Len(pf.tried)].encoder = NoEncoder
              /\ pf.result.rc = pf.tried[Len(pf.tried)].rc
        /\ (\E k \in 1..Len(pf.tried) : pf.tried[k].rc = 0) =>
              /\ pf.result.success
              /\ Kind(pf.result) \in {"ok", "ok-fallback"}

\* C15 witness: two hardware encoders exited 1, the CPU command exited 2,
\* and the call returned failed with exit code 2.
C15_Witness ==
    /\ pf.pc = "returned"
    /\ Len(HwTried) = 2
    /\ \A k \in 1..2 : pf.tried[k].rc = 1
    /\ Len(pf.tried) = 3
    /\ pf.result = FailedAll(2)

\* C16: if probing fails while a hardware encoder is requested, no hardware
\* encoder but the requested one is invoked; when the failure reaches
\* process_file the list is the requested encoder alone, and the CPU
\* command follows if that encoder fails.
C16_ProbeFailureOnlyRequested ==
    (pf_req.gpu_encoder # NoEncoder /\ pf_req.probe # "ok") =>
        /\ \A k \in 1..Len(HwTried) : HwTried[k] = pf_req.gpu_encoder
        /\ Len(HwTried) <= 1
        /\ (pf_req.probe = "raised" /\ pf.candidates # <<>>) =>
              pf.candidates = <<pf_req.gpu_encoder>>
        /\ (pf_req.probe = "raised" /\ RanAndReturned
               /\ Kind(pf.result) # "error") =>
              /\ pf.tried[1].encoder = pf_req.gpu_encoder
              /\ pf.tried[1].rc > 0 =>
                    (Len(pf.tried) = 2 /\ pf.tried[2].encoder = NoEncoder)

\* C16 witness: probing raised, the requested encoder was invoked and
\* failed, and the CPU command ran after it.
C16_Witness ==
    /\ pf_req.probe = "raised"
    /\ pf.pc = "returned"
    /\ Len(pf.tried) = 2
    /\ pf.tried[1].encoder = pf_req.gpu_encoder
    /\ pf.tried[1].rc > 0
    /\ pf.tried[2].encoder = NoEncoder

\* the step invokes a hardware encoder in a transcoder process that exits 0
HwExitZeroStep(e) ==
    /\ IsHardware(e)
    /\ pf'.tried = Append(pf.tried, [encoder |-> e, rc |-> 0, spawned |-> TRUE])

\* C17: the persisted last_gpu_encoder value of a codec changes only in a
\* step where the invocation of a hardware encoder exits 0, and then holds
\* that encoder for the codec of the request.
C17_WrittenOnlyOnHardwareSuccess ==
    [][config' # config =>
         \E e \in encoder_mappings(pf_req.codec) \cup {Unrecognized} :
            /\ HwExitZeroStep(e)
            /\ config' = [config EXCEPT ![pf_req.codec] = e]]_vars

\* the skip test of process_file, on the state of the call
SkipCondition ==
    pf.existed /\ ~pf_req.overwrite /\ pf_req.skip_existing

\* C18: process_file returns skipped, with no run of any command, exactly
\* when the output file existed at the call, overwrite is false and
\* skip_existing is true; with overwrite true it never returns skipped.
C18_SkippedExactlyWhen ==
    pf.pc = "returned" =>
        /\ Kind(pf.result) = "skipped" <=> SkipCondition
        /\ Kind(pf.result) = "skipped" => pf.tried = <<>>
        /\ pf_req.overwrite => Kind(pf.result) # "skipped"

\* C18 witness: the output file existed before the first call, which
\* returned skipped without running a command.
C18_Witness ==
    /\ pf.pc = "returned"
    /\ pf_prev = "none"
    /\ SkipCondition
    /\ pf.result = Skip
    /\ pf.tried = <<>>

\* the second of two successive calls with the same request has returned
SecondReturned == pf.pc = "returned" /\ pf_prev # "none"

\* the second call returned skipped and ran no command
SkippedWithoutRun == Kind(pf.result) = "skipped" /\ pf.tried = <<>>

ColourOptions ==
    [primaries |-> "-color_primaries", transfer |-> "-color_trc",
     matrix |-> "-colorspace"]
ColourKeys ==
    [primaries |-> "colorprim", transfer |-> "transfer",
     matrix |-> "colormatrix"]

ColourKinds == DOMAIN ColourOptions

\* the values given to the colour options of the vector
OptionTags(c) ==
    UNION {{<<t, c[i + 1].text>> :
               t \in {k \in ColourKinds : c[i].text = ColourOptions[k]}} :
           i \in 1..(Len(c) - 1)}

\* the colour keys of a parameter list
ParamTags(kv) ==
    UNION {{<<t, kv[j][2]>> :
               t \in {k \in ColourKinds : kv[j][1] = ColourKeys[k]}} :
           j \in 1..Len(kv)}

ColourTags(c) ==
    OptionTags(c)
      \cup UNION {ParamTags(c[i + 1].params) :
                    i \in {k \in 1..(Len(c) - 1) :
                             c[k].text \in {"-x265-params", "-x264-params"}}}

HlgTags ==
    {<<"primaries", "bt2020">>, <<"transfer", "arib-std-b67">>,
     <<"matrix", "bt2020nc">>}

\* C20: for every codec, encoder choice and value of the other arguments,
\* the vector built by build_ffmpeg_cmd_gpu or build_ffmpeg_cmd carries
\* the colour tags primaries bt2020, transfer arib-std-b67 and matrix
\* bt2020nc, and no other value for them.
C20_ColourTagsFixed == cmd # <<>> => ColourTags(cmd) = HlgTags

\* C20 witness: a vector built for h264 with an identifier no branch
\* names, next to the frame rate and overwrite arguments.
C20_Witness ==
    /\ cmd # <<>>
    /\ cmd_req.builder = "build_ffmpeg_cmd_gpu"
    /\ cmd_req.codec = "h264"
    /\ cmd_req.gpu_encoder = OtherUnrecognized
    /\ cmd_req.overwrite
    /\ cmd_req.fps # NoFps
    /\ ColourTags(cmd) = HlgTags

\* the video encoder an argument vector selects: the value of -c:v
VideoEncoder(c) ==
    c[(CHOOSE i \in 1..(Len(c) - 1) : c[i].text = "-c:v") + 1].text

\* the CPU software encoder of a codec
SoftwareEncoder(codec) == IF codec = "hevc" THEN "libx265" ELSE "libx264"

\* C21: build_ffmpeg_cmd_gpu selects the software encoder of the codec
\* whenever the chosen identifier is not one of that codec's hardware
\* encoders, and a hardware encoder only for one of the codec's own
\* identifiers.
C21_UnrecognizedFallsBackToCpu ==
    (cmd # <<>> /\ cmd_req.builder = "build_ffmpeg_cmd_gpu") =>
        /\ cmd_req.gpu_encoder \notin encoder_mappings(cmd_req.codec) =>
              VideoEncoder(cmd) = SoftwareEncoder(cmd_req.codec)
        /\ VideoEncoder(cmd) # SoftwareEncoder(cmd_req.codec) =>
              cmd_req.gpu_encoder \in encoder_mappings(cmd_req.codec)

(***************************************************************************)
(* Claims about output naming.                                             *)
(***************************************************************************)
\* C22: in a batch of more than one file with the custom-filename policy,
\* the n-th file resolves to the custom text without blanks around it and
\* without a trailing .mp4, followed by _ and n as four digits, and no two
\* files of the batch resolve to the same name, under either scheduler.
C22_SequenceNumberedNames ==
    (name_req.custom_filename /\ name_req.total > 1) =>
        /\ \A n \in 1..Len(resolved) :
              resolved[n].base =
                WithoutMp4(strip(name_req.custom_filename_text))
                  \o <<SequenceSuffix(n)>>
        /\ \A m, n \in 1..Len(resolved) :
              resolved[m].base_name = resolved[n].base_name => m = n

\* the same for the sequential scheduler alone
SequentialNamesNumbered ==
    name_req.scheduler = "sequential" => C22_SequenceNumberedNames

\* C23: the base name process_file computes, before ".mp4" is appended, is
\* never empty.
C23_BaseNameNonEmpty ==
    \A n \in 1..Len(resolved) : resolved[n].base_name # <<>>

(***************************************************************************)
(* Claims about the window's naming options.                               *)
(***************************************************************************)
\* C24: after apply_config of any configuration and after any sequence of
\* clicks on the two boxes, exactly one of keep-original-name and
\* custom-filename is checked.
C24_ExactlyOneNamingOption ==
    checks.keep_original_name_check # checks.custom_filename_check

\* C24 witness: the configuration asked for both options off; after it
\* was applied and the user clicked, custom-filename alone is checked.
C24_Witness ==
    /\ gui_pc = "ready"
    /\ gui_config.keep_original_name = "false"
    /\ gui_config.custom_filename = "false"
    /\ ~gui_config.earlier_key_raises
    /\ checks.custom_filename_check
    /\ ~checks.keep_original_name_check

(***************************************************************************)
(* Claims about main of transcode_core.py.                                 *)
(***************************************************************************)
\* C27: for a quality factor outside 0..51 main returns 1, having run no
\* version check and no transcode and processed no file.
C27_BadCrfRejectedFirst ==
    (main_args.crf < 0 \/ main_args.crf > 51) =>
        /\ main.pc \in {"crf", "returned"}
        /\ main.pc = "returned" => main.rc = 1
        /\ main.version_checks = 0
        /\ main.transcodes = 0
        /\ main.done = {}

\* C27 witness: crf 52 with an existing input, a working ffmpeg and files
\* to process; main has returned 1.
C27_Witness ==
    /\ main_args.crf = 52
    /\ main_args.input_exists /\ main_args.mkdir_ok /\ main_args.ffmpeg_runs
    /\ ~main_args.allow_missing
    /\ main_args.files # <<>>
    /\ main.pc = "returned"
    /\ main.rc = 1

\* the validation of main passes
MainValid ==
    /\ 0 <= main_args.crf /\ main_args.crf <= 51
    /\ main_args.input_exists
    /\ main_args.mkdir_ok
    /\ main_args.allow_missing \/ main_args.ffmpeg_runs

NotSucceeded ==
    {k \in 1..Len(main_args.files) :
        main_args.files[k].outcome \in {"failed", "error"}}

\* C28: main returns 1 when validation fails, else 2 when no file is
\* found, else 1 when a file ended failed or error, else 0, in either
\* mode and for every file name.
C28_ExitCodes ==
    main.pc = "returned" =>
        main.rc = IF ~MainValid THEN 1
                  ELSE IF main_args.files = <<>> THEN 2
                  ELSE IF NotSucceeded # {} THEN 1
                  ELSE 0

\* C29: a file whose processing raised is counted as failed, and the
\* batch goes on to every remaining file, in either mode.
C29_ErrorCountedAndBatchContinues ==
    /\ main.fail >= Cardinality({k \in main.done :
                                   main_args.files[k].outcome = "error"})
    /\ (main.pc = "returned" /\ MainValid) =>
          main.done = 1..Len(main_args.files)

(***************************************************************************)
(* Further claims about the task queue.                                    *)
(***************************************************************************)

\* C31: when stop_task_queue returns, is_queue_running is false, is_paused
\* is false and current_task_index is 0; a start_task_queue that then
\* starts the queue gives the task at position 0 the status running and a
\* worker created for it.
C31_StopResetsController ==
    [][/\ StopQueue =>
            /\ ~is_queue_running'
            /\ ~is_paused'
            /\ current_task_index' = 0
       /\ (StartQueue /\ ~is_queue_running /\ is_queue_running') =>
            /\ current_task_index' = 0
            /\ task_queue'[1].status = "running"
            /\ current_queue_worker'.task = task_queue'[1].id]_vars

\* C31 witness: a queue of two tasks was stopped and then started again;
\* the position is 0 and the first task runs, the second still shows the
\* status the stop gave it.
C31_Witness ==
    /\ Len(task_queue) = 2
    /\ is_queue_running
    /\ current_task_index = 0
    /\ task_queue[1].status = "running"
    /\ task_queue[2].status = "stopped"

\* C36: in every reachable state 0 <= current_task_index <= len(task_queue),
\* and while the thread of the current queue worker is in the work of its
\* task, current_task_index < len(task_queue) and the task at
\* current_task_index is the one the worker was created for.
C36_IndexValid ==
    /\ 0 <= current_task_index
    /\ current_task_index <= Len(task_queue)
    /\ Working(current_queue_worker) =>
         /\ current_task_index < Len(task_queue)
         /\ task_queue[current_task_index + 1].id = current_queue_worker.task

\* the tasks whose status a step changes
Recorded ==
    {id \in TaskIds(task_queue) \cap TaskIds(task_queue') :
       StatusOf(task_queue', id) # StatusOf(task_queue, id)}

\* the step creates a worker: the controller refers to a new object, and
\* the object it referred to, if still at work, goes on by itself
StartsWorker ==
    /\ \E k \in 1..Len(task_queue') :
         current_queue_worker' = NewWorker(task_queue'[k].id)
    /\ detached' =
         IF StillActs(current_queue_worker)
           THEN detached (+) SetToBag({Detached(current_queue_worker)})
           ELSE detached

\* C37: a delivery of finished to queue_task_finished records failed or
\* done, as the signal says, on one task only, which is a task a worker was
\* created for (the signal has no sender: a task whose worker emitted has
\* left the status waiting); a worker the delivery starts is for the task
\* right after the recorded one, which was waiting.
C37_FinishedRecordedOnItsTask ==
    [][DeliverFinished =>
         LET id0 == task_queue[current_task_index + 1].id IN
         /\ current_task_index < Len(task_queue) =>
              /\ StatusOf(task_queue, id0) # "waiting"
              /\ StatusOf(task_queue', id0) =
                    (IF Head(signals).failed THEN "failed" ELSE "done")
              /\ Recorded \subseteq
                    {id0} \cup {task_queue'[k].id :
                                  k \in {current_task_index + 2}
                                          \cap (1..Len(task_queue'))}
         /\ StartsWorker =>
              /\ current_task_index' = current_task_index + 1
              /\ task_queue[current_task_index' + 1].status = "waiting"
              /\ current_queue_worker'.task =
                    task_queue'[current_task_index' + 1].id]_vars

\* C39: no step that ends with is_paused true creates a worker or takes a
\* task from waiting to running.
C39_NoStartWhilePaused ==
    [][is_paused' =>
         /\ ~StartsWorker
         /\ \A id \in TaskIds(task_queue) \cap TaskIds(task_queue') :
              ~(/\ StatusOf(task_queue, id) = "waiting"
                /\ StatusOf(task_queue', id) = "running")]_vars

\* C39 witness: the queue is paused and running; the first task's finished
\* signal was delivered during the pause, the position is at the second
\* task, which still waits.
C39_Witness ==
    /\ is_paused
    /\ is_queue_running
    /\ Len(task_queue) = 2
    /\ current_task_index = 1
    /\ task_queue[1].status \in {"done", "failed"}
    /\ task_queue[2].status = "waiting"
    /\ signals = <<>>

(***************************************************************************)
(* Claims about detect_gpu_encoders.                                       *)
(***************************************************************************)
\* the run of `ffmpeg -encoders` failed: no process, or a non-zero exit
EncoderRunFailed ==
    \/ det_req.run.outcome = "oserror"
    \/ det_req.run.outcome = "exited" /\ det_req.run.returncode # 0

\* C32: detect_gpu_encoders does not raise, and when the run that lists the
\* encoders failed (missing binary, non-zero exit) the list it returns is
\* empty.
C32_FailureGivesEmptyList ==
    (det.pc = "returned" /\ EncoderRunFailed) => det.result = <<>>

(***************************************************************************)
(* Claims about iter_video_files.                                          *)
(***************************************************************************)
\* the names of FileNames whose extension, whatever its case, is one of
\* .mov .mp4 .mxf .m4v
VideoNames ==
    {<<"a", ".", "mov">>, <<"b", ".", "MP4">>, <<"d", ".", "mxf">>,
     <<"e", ".", "M4v">>, <<"h", ".", "txt", ".", "mp4">>}

\* what the call is to yield
VideoFilesUnder ==
    IF iter_req.root = "file"
      THEN {e \in {[depth |-> 0, name |-> iter_req.root_name,
                    kind |-> "file"]} : e.name \in VideoNames}
      ELSE {e \in iter_req.tree :
              /\ e.kind = "file"
              /\ e.name \in VideoNames
              /\ (e.depth = 0 \/ iter_req.recursive)}

\* C33: iter_video_files yields exactly the files with a video extension,
\* compared without regard to case: input_path itself when it is a file;
\* for a directory, the files of the directory itself, and those of the
\* directories below it only when recursive is true.
C33_ExactlyVideoFiles ==
    iter.pc = "returned" => iter.yielded = VideoFilesUnder

\* C33 witness: without recursion, a directory holding b.MP4 and, in a
\* subdirectory, d.mxf has yielded b.MP4 only.
C33_Witness ==
    /\ iter.pc = "returned"
    /\ ~iter_req.recursive
    /\ iter_req.tree =
         {[depth |-> 0, name |-> <<"b", ".", "MP4">>, kind |-> "file"],
          [depth |-> 1, name |-> <<"d", ".", "mxf">>, kind |-> "file"]}
    /\ iter.yielded =
         {[depth |-> 0, name |-> <<"b", ".", "MP4">>, kind |-> "file"]}

(***************************************************************************)
(* Claims about TranscodeWorker.run.                                       *)
(***************************************************************************)
\* an exception reaches the handler of the enclosing try
Unexpected ==
    \/ run_req.raises = "resolve"
    \/ /\ run_req.input_exists
       /\ run_req.mkdir = "ok"
       /\ run_req.which_ffmpeg = "ok"
       /\ \/ run_req.raises \in {"params", "iter"}
          \/ run_req.raises = "batch" /\ run_req.files # <<>>

\* a check before the batch fails
ConfigurationError ==
    /\ run_req.raises # "resolve"
    /\ \/ ~run_req.input_exists
       \/ run_req.mkdir # "ok"
       \/ run_req.which_ffmpeg # "ok"

\* C35: a run of TranscodeWorker.run that has returned has emitted finished
\* exactly once: (0, 1, 0) after a configuration error or an unexpected
\* exception, (0, 0, 0) when no input file is found, and otherwise the
\* three counts of the batch, one count per file.
C35_FinishedEmittedOnce ==
    run.pc = "returned" =>
      /\ Len(run.emitted) = 1
      /\ (ConfigurationError \/ Unexpected) => run.emitted[1] = <<0, 1, 0>>
      /\ (~ConfigurationError /\ ~Unexpected /\ run_req.files = <<>>)
           => run.emitted[1] = <<0, 0, 0>>
      /\ (~ConfigurationError /\ ~Unexpected /\ run_req.files # <<>>)
           => run.emitted[1][1] + run.emitted[1][2] + run.emitted[1][3]
                = Len(run_req.files)

\* C35 witness: process_files_sequential raised on a batch of two files;
\* the handler emitted (0, 1, 0) and run returned.
C35_Witness ==
    /\ run.pc = "returned"
    /\ run_req.raises = "batch"
    /\ run_req.input_exists
    /\ run_req.mkdir = "ok"
    /\ run_req.which_ffmpeg = "ok"
    /\ Len(run_req.files) = 2
    /\ run.emitted = <<(<<0, 1, 0>>)>>

(***************************************************************************)
(* Claims about the counters of a batch.                                   *)
(***************************************************************************)
\* the processed files of main whose outcome is one of outcomes
DoneWith(outcomes) ==
    {k \in main.done : main_args.files[k].outcome \in outcomes}

\* C34: each processed file is counted in the counter of its own outcome,
\* whatever its name: skipped counts the files process_file skipped, ok the
\* files it transcoded, fail the files that failed or raised.
C34_CountedByOwnOutcome ==
    /\ main.skipped = Cardinality(DoneWith({"skipped"}))
    /\ main.ok = Cardinality(DoneWith({"ok"}))
    /\ main.fail = Cardinality(DoneWith({"failed", "error"}))

(***************************************************************************)
(* Claims about the invocations of one call of process_file.               *)
(***************************************************************************)
\* the positions of the attempts made with the CPU command
CpuAttempts == {k \in 1..Len(pf.tried) : ~IsHardware(pf.tried[k].encoder)}

====
